---- MODULE Spec2Model ----
(***************************************************************************)
(* Verification model of the news dedup + clustering engine of T-Api.      *)
(*                                                                         *)
(*   src/src/normalization.py  normalize_text, normalize_title,            *)
(*                             canonicalize_url                            *)
(*   src/src/dedupe.py         compute_hash, dedupe_items                  *)
(*   src/src/confirm.py        extract_entities, cluster_news_items        *)
(*   src/api/news_fetch.py     handler, collect_source_news,               *)
(*                             hydrate_entry (builds the NewsItem)         *)
(*   src/src/security.py       verify_signature, validate_origin           *)
(*   src/src/rate_limit.py     enforce_rate_limit                          *)
(*                                                                         *)
(* Strings are sequences of one-character strings, so that whitespace      *)
(* collapsing, lower-casing, token sorting and the character-level         *)
(* similarity ratio are computed, not assumed.  URLs are sequences of      *)
(* lexemes ("https:", "//", "www.", "example.com", "/a", "?q", "#f").           *)
(* Times are integer seconds.  Similarity thresholds are integer percents  *)
(* (0.8 is 80) and ratios are exact fractions [num, den].                  *)
(***************************************************************************)
EXTENDS Integers, Sequences, FiniteSets, TLC

VARIABLES
    pc,         \* position of the run
    items,      \* dedupe_items: the caller's input list of NewsItem
    threshold,  \* dedupe_items: threshold, in percent
    deduped,    \* dedupe_items(items, threshold)
    again,      \* dedupe_items(deduped, threshold)
    entries,    \* hydrate_entry: two raw feed entries
    hydrated,   \* hydrate_entry: the NewsItems built from them, in order
    batch,      \* cluster_news_items: the caller's input list
    window,     \* cluster_news_items: window_minutes
    simThreshold, \* cluster_news_items: similarity_threshold, in percent
    runs,       \* cluster_news_items: the result of each invocation made so far;
                \* handler: the calls of collect_source_news it made
    args,       \* score_cluster, extract_entities: the arguments of the call;
                \* handler: the request
    ret,        \* score_cluster, extract_entities: what the call computed;
                \* handler: the response
    heap,       \* concurrent invocations: the objects every thread can reach;
                \* handler: settings, feeds and storage
    frames      \* concurrent invocations: the local variables of each thread

vars == <<pc, items, threshold, deduped, again, entries, hydrated,
          batch, window, simThreshold, runs, args, ret, heap, frames>>

(***************************************************************************)
(* Bounds of the model.                                                    *)
(***************************************************************************)
MaxItems == 3
MaxBatch == 3

(***************************************************************************)
(* Characters.  Alphabet lists the characters in code point order, which   *)
(* is the order Python compares strings by.                                *)
(***************************************************************************)
UpperLetters ==
    << "A", "B", "C", "D", "E", "F", "G", "H", "I", "J", "K", "L", "M",
       "N", "O", "P", "Q", "R", "S", "T", "U", "V", "W", "X", "Y", "Z" >>

LowerLetters ==
    << "a", "b", "c", "d", "e", "f", "g", "h", "i", "j", "k", "l", "m",
       "n", "o", "p", "q", "r", "s", "t", "u", "v", "w", "x", "y", "z" >>

Alphabet ==
    << "\t", " ", "$", "0", "1", "5", ":" >> \o UpperLetters \o << "_" >> \o LowerLetters

\* the position of every character in Alphabet
OrdTable ==
    [c \in {Alphabet[i] : i \in 1..Len(Alphabet)} |->
        CHOOSE i \in 1..Len(Alphabet) : Alphabet[i] = c]

Ord(c) == OrdTable[c]

\* the characters the regular expression class \s matches
IsSpace(c) == c \in {" ", "\t"}

\* the lower-case letter of every upper-case letter, and the other way round
LowerTable ==
    [c \in {UpperLetters[i] : i \in 1..Len(UpperLetters)} |->
        LowerLetters[CHOOSE i \in 1..Len(UpperLetters) : UpperLetters[i] = c]]

UpperTable ==
    [c \in {LowerLetters[i] : i \in 1..Len(LowerLetters)} |->
        UpperLetters[CHOOSE i \in 1..Len(LowerLetters) : LowerLetters[i] = c]]

\* str.lower() on one character
LowerChar(c) == IF c \in DOMAIN LowerTable THEN LowerTable[c] ELSE c

\* str.upper() on one character
UpperChar(c) == IF c \in DOMAIN UpperTable THEN UpperTable[c] ELSE c

\* the characters the regular expression class \w matches
IsWordChar(c) == ~ (IsSpace(c) \/ c \in {"$", ":"})

Lower(s) == [i \in 1..Len(s) |-> LowerChar(s[i])]

Upper(s) == [i \in 1..Len(s) |-> UpperChar(s[i])]

(***************************************************************************)
(* normalization.py: normalize_text, normalize_title                       *)
(***************************************************************************)
RECURSIVE CollapseFrom(_, _, _)
\* re.sub(r"\s+", " ", value): every maximal run of whitespace becomes one " "
CollapseFrom(s, i, acc) ==
    IF i > Len(s) THEN acc
    ELSE IF IsSpace(s[i])
         THEN IF i > 1 /\ IsSpace(s[i - 1])
              THEN CollapseFrom(s, i + 1, acc)
              ELSE CollapseFrom(s, i + 1, Append(acc, " "))
         ELSE CollapseFrom(s, i + 1, Append(acc, s[i]))

CollapseWhitespace(s) == CollapseFrom(s, 1, <<>>)

\* str.strip(): leading and trailing whitespace removed
Strip(s) ==
    LET keep == {i \in 1..Len(s) : ~ IsSpace(s[i])}
    IN  IF keep = {} THEN <<>>
        ELSE LET lo == CHOOSE i \in keep : \A j \in keep : i <= j
                 hi == CHOOSE i \in keep : \A j \in keep : j <= i
             IN  SubSeq(s, lo, hi)

normalize_text(value) ==
    IF value = <<>> THEN <<>> ELSE Strip(CollapseWhitespace(value))

normalize_title(value) == Lower(normalize_text(value))

(***************************************************************************)
(* rapidfuzz fuzz.token_sort_ratio, as called by dedupe.py and confirm.py: *)
(* split both strings on whitespace, sort the tokens, join them with one   *)
(* space, and return the normalized Indel similarity of the two results,   *)
(* 100 * 2*LCS(a, b) / (len(a) + len(b)), which is 100 for two empty       *)
(* strings.  The ratio is kept as the exact fraction num/den in [0, 1].    *)
(***************************************************************************)
RECURSIVE SplitFrom(_, _, _, _)
\* str.split(): the maximal runs of non-whitespace characters, in order
SplitFrom(s, i, cur, acc) ==
    IF i > Len(s)
    THEN IF cur = <<>> THEN acc ELSE Append(acc, cur)
    ELSE IF IsSpace(s[i])
         THEN SplitFrom(s, i + 1, <<>>, IF cur = <<>> THEN acc ELSE Append(acc, cur))
         ELSE SplitFrom(s, i + 1, Append(cur, s[i]), acc)

Split(s) == SplitFrom(s, 1, <<>>, <<>>)

\* Python's str < str: lexicographic by code point, a proper prefix first
StrLess(a, b) ==
    \/ /\ Len(a) < Len(b)
       /\ \A k \in 1..Len(a) : a[k] = b[k]
    \/ \E k \in 1..Len(a) :
          /\ k <= Len(b)
          /\ Ord(a[k]) < Ord(b[k])
          /\ \A j \in 1..(k - 1) : a[j] = b[j]

\* one insertion of sorted(): v goes after the elements that are not greater
InsertToken(sorted, v) ==
    LET n == Cardinality({k \in 1..Len(sorted) : ~ StrLess(v, sorted[k])})
    IN  SubSeq(sorted, 1, n) \o <<v>> \o SubSeq(sorted, n + 1, Len(sorted))

RECURSIVE SortTokensFrom(_, _, _)
SortTokensFrom(toks, i, acc) ==
    IF i > Len(toks) THEN acc
    ELSE SortTokensFrom(toks, i + 1, InsertToken(acc, toks[i]))

SortTokens(toks) == SortTokensFrom(toks, 1, <<>>)

RECURSIVE JoinFrom(_, _, _)
\* " ".join(tokens)
JoinFrom(toks, i, acc) ==
    IF i > Len(toks) THEN acc
    ELSE JoinFrom(toks, i + 1, IF i = 1 THEN toks[i] ELSE acc \o <<" ">> \o toks[i])

JoinTokens(toks) == JoinFrom(toks, 1, <<>>)

Max2(x, y) == IF x >= y THEN x ELSE y

RECURSIVE LcsRow(_, _, _, _, _)
\* one row of the longest-common-subsequence table: prev is the row above
\* (prev[j + 1] is column j), acc the part of this row already computed.
\* The test on cell only makes the cell a value before the next column is begun.
LcsRow(prev, ch, b, j, acc) ==
    IF j > Len(b) THEN acc
    ELSE LET cell == IF ch = b[j] THEN prev[j] + 1 ELSE Max2(prev[j + 1], acc[j])
         IN  IF cell >= 0 THEN LcsRow(prev, ch, b, j + 1, Append(acc, cell))
             ELSE acc

RECURSIVE LcsFrom(_, _, _, _)
\* the rows of the table, one per character of a; the test on row only makes
\* the row a value before the next row is begun
LcsFrom(a, b, i, prev) ==
    IF i > Len(a) THEN prev[Len(b) + 1]
    ELSE LET row == LcsRow(prev, a[i], b, 1, <<0>>)
         IN  IF Len(row) > 0 THEN LcsFrom(a, b, i + 1, row) ELSE 0

LcsLength(a, b) == LcsFrom(a, b, 1, [j \in 1..(Len(b) + 1) |-> 0])

\* fuzz.ratio: the normalized Indel similarity, as a fraction
IndelRatio(a, b) ==
    IF Len(a) + Len(b) = 0 THEN [num |-> 1, den |-> 1]
    ELSE [num |-> 2 * LcsLength(a, b), den |-> Len(a) + Len(b)]

\* a plain fuzz.ratio in its place: the tokens are not sorted
token_sort_ratioUnsorted(s1, s2) == IndelRatio(s1, s2)

token_sort_ratio(s1, s2) ==
    IndelRatio(JoinTokens(SortTokens(Split(s1))), JoinTokens(SortTokens(Split(s2))))

\* score / 100.0 >= threshold, the threshold in percent
RatioAtLeast(r, percent) == 100 * r.num >= percent * r.den

(***************************************************************************)
(* normalization.py: canonicalize_url.  A URL is a sequence of lexemes:    *)
(* an optional scheme ("http:", "https:"), an optional "//" followed by    *)
(* the netloc lexemes ("u@", "www.", "WWW.", "example.com", "Example.com"), path     *)
(* lexemes ("/a", "/b"), an optional query ("?q") and an optional fragment *)
(* ("#f").  Without "//" the leading host-looking lexemes are, as for      *)
(* urllib.parse.urlparse, part of the path.                                *)
(***************************************************************************)
SchemeLexemes == {"http:", "https:"}
PathLexemes == {"/", "/a", "/b"}
QueryLexemes == {"?q"}
FragmentLexemes == {"#f"}

\* str.lower() on one netloc lexeme
LowerLexeme(t) ==
    CASE t = "WWW." -> "www." [] t = "Example.com" -> "example.com" [] OTHER -> t

\* the index of the first lexeme of s, from position i on, that lies in set,
\* and Len(s) + 1 when there is none
FirstIn(s, i, set) ==
    LET hits == {k \in i..Len(s) : s[k] \in set}
    IN  IF hits = {} THEN Len(s) + 1
        ELSE CHOOSE k \in hits : \A j \in hits : k <= j

\* urllib.parse.urlparse(url): scheme, then the netloc after "//" up to the
\* first "/", "?" or "#", then the fragment from the first "#", then the
\* query from the first "?", and the path is what is left
urlparse(url) ==
    LET hasScheme == url # <<>> /\ url[1] \in SchemeLexemes
        rest      == IF hasScheme THEN Tail(url) ELSE url
        hasNetloc == rest # <<>> /\ rest[1] = "//"
        afterSl   == IF hasNetloc THEN Tail(rest) ELSE rest
        netEnd    == IF hasNetloc
                     THEN FirstIn(afterSl, 1,
                                  PathLexemes \cup QueryLexemes \cup FragmentLexemes)
                     ELSE 1
        tailPart  == SubSeq(afterSl, netEnd, Len(afterSl))
        fragAt    == FirstIn(tailPart, 1, FragmentLexemes)
        noFrag    == SubSeq(tailPart, 1, fragAt - 1)
        queryAt   == FirstIn(noFrag, 1, QueryLexemes)
    IN  [ scheme   |-> IF hasScheme THEN url[1] ELSE "",
          netloc   |-> SubSeq(afterSl, 1, netEnd - 1),
          path     |-> SubSeq(noFrag, 1, queryAt - 1),
          query    |-> SubSeq(noFrag, queryAt, Len(noFrag)),
          fragment |-> SubSeq(tailPart, fragAt, Len(tailPart)) ]

\* urllib.parse.urlunparse((scheme, netloc, path, "", query, "")) for the
\* schemes http and https: "//" and the netloc always follow the scheme,
\* and a path that does not start with "/" gets one
urlunparse(scheme, netloc, path, query) ==
    <<scheme, "//">> \o netloc
        \o (IF path # <<>> /\ path[1] \notin PathLexemes THEN <<"/">> ELSE <<>>)
        \o path \o query

\* a faulty canonicalization: the netloc is not lower-cased
canonicalize_urlKeepCase(url) ==
    LET parsed  == urlparse(url)
        scheme  == IF parsed.scheme # "" THEN parsed.scheme ELSE "https:"
        netloc  == IF parsed.netloc # <<>> /\ parsed.netloc[1] = "www."
                   THEN Tail(parsed.netloc) ELSE parsed.netloc
        path    == IF parsed.path # <<>> THEN parsed.path ELSE <<"/">>
    IN  urlunparse(scheme, netloc, path, parsed.query)

\* a faulty canonicalization: a leading "www." is kept
canonicalize_urlKeepWww(url) ==
    LET parsed  == urlparse(url)
        scheme  == IF parsed.scheme # "" THEN parsed.scheme ELSE "https:"
        lowered == [i \in 1..Len(parsed.netloc) |-> LowerLexeme(parsed.netloc[i])]
        path    == IF parsed.path # <<>> THEN parsed.path ELSE <<"/">>
    IN  urlunparse(scheme, lowered, path, parsed.query)

canonicalize_url(url) ==
    LET parsed  == urlparse(url)
        scheme  == IF parsed.scheme # "" THEN parsed.scheme ELSE "https:"
        lowered == [i \in 1..Len(parsed.netloc) |-> LowerLexeme(parsed.netloc[i])]
        netloc  == IF lowered # <<>> /\ lowered[1] = "www." THEN Tail(lowered)
                   ELSE lowered
        path    == IF parsed.path # <<>> THEN parsed.path ELSE <<"/">>
    IN  urlunparse(scheme, netloc, path, parsed.query)

(***************************************************************************)
(* dedupe.py: compute_hash.  SHA-256 is taken to be collision free: the    *)
(* digest is represented by the string that is hashed, so two digests are  *)
(* equal exactly when the hashed strings are.                              *)
(***************************************************************************)
compute_hash(title, content) == normalize_title(title) \o <<":", ":">> \o content

(***************************************************************************)
(* dedupe.py: dedupe_items                                                 *)
(***************************************************************************)
\* the test of the inner loop: existing, already accepted, makes item a duplicate
IsDuplicateOf(existing, item, t) ==
    \/ existing.hash = item.hash
    \/ canonicalize_url(existing.url) = canonicalize_url(item.url)
    \/ RatioAtLeast(token_sort_ratio(normalize_title(existing.title),
                                     normalize_title(item.title)), t)

RECURSIVE DedupeFromInputNeighbour(_, _, _, _)
\* a faulty loop: the candidate is compared with the input record before it
DedupeFromInputNeighbour(list, i, result, t) ==
    IF i > Len(list) THEN result
    ELSE LET item      == list[i]
             duplicate == i > 1 /\ IsDuplicateOf(list[i - 1], item, t)
         IN  DedupeFromInputNeighbour(list, i + 1,
                        IF duplicate THEN result ELSE Append(result, item), t)

RECURSIVE DedupeFromPrepend(_, _, _, _)
\* a faulty loop: an accepted record is put in front of the accumulator
DedupeFromPrepend(list, i, result, t) ==
    IF i > Len(list) THEN result
    ELSE LET item      == list[i]
             duplicate == \E k \in 1..Len(result) : IsDuplicateOf(result[k], item, t)
         IN  DedupeFromPrepend(list, i + 1,
                        IF duplicate THEN result ELSE <<item>> \o result, t)

RECURSIVE DedupeFromLastWins(_, _, _, _)
\* a faulty loop: a duplicate replaces the accepted record it matches first
DedupeFromLastWins(list, i, result, t) ==
    IF i > Len(list) THEN result
    ELSE LET item == list[i]
             hits == {k \in 1..Len(result) : IsDuplicateOf(result[k], item, t)}
         IN  DedupeFromLastWins(list, i + 1,
                        IF hits = {} THEN Append(result, item)
                        ELSE [result EXCEPT
                                 ![CHOOSE k \in hits : \A j \in hits : k <= j] = item],
                        t)

RECURSIVE DedupeFromLastOnly(_, _, _, _)
\* a faulty loop: the candidate is compared with the last accepted record only
DedupeFromLastOnly(list, i, result, t) ==
    IF i > Len(list) THEN result
    ELSE LET item      == list[i]
             duplicate == result # <<>> /\ IsDuplicateOf(result[Len(result)], item, t)
         IN  DedupeFromLastOnly(list, i + 1,
                        IF duplicate THEN result ELSE Append(result, item), t)

RECURSIVE DedupeFromAgainstInput(_, _, _, _)
\* a faulty loop: the candidate is compared with every earlier input record,
\* accepted or dropped
DedupeFromAgainstInput(list, i, result, t) ==
    IF i > Len(list) THEN result
    ELSE LET item      == list[i]
             duplicate == \E k \in 1..(i - 1) : IsDuplicateOf(list[k], item, t)
         IN  DedupeFromAgainstInput(list, i + 1,
                        IF duplicate THEN result ELSE Append(result, item), t)

RECURSIVE DedupeFrom(_, _, _, _)
\* the outer loop, from input position i on, result being the accumulator
DedupeFrom(list, i, result, t) ==
    IF i > Len(list) THEN result
    ELSE LET item      == list[i]
             duplicate == \E k \in 1..Len(result) : IsDuplicateOf(result[k], item, t)
         IN  DedupeFrom(list, i + 1,
                        IF duplicate THEN result ELSE Append(result, item), t)

dedupe_items(list, t) == DedupeFrom(list, 1, <<>>, t)

(***************************************************************************)
(* Inputs of dedupe_items.  A NewsItem carries the fields dedupe reads     *)
(* (url, title, hash) and id, source and content_text.  The hash is        *)
(* compute_hash of the title and the content, as news_fetch.hydrate_entry  *)
(* sets it, or a value the caller chose (tests/test_smoke.py passes        *)
(* hash="hash").                                                           *)
(***************************************************************************)
\* "a b"; "A \tb", which normalizes to "a b"; "bc a", whose sorted tokens are
\* "a bc" (ratio 6/7 with "a b" and with "a c"); "a c" (ratio 4/6 with "a b")
TitleAB  == <<"a", " ", "b">>
TitleAB2 == <<"A", " ", "\t", "b">>
TitleBCA == <<"b", "c", " ", "a">>
TitleAC  == <<"a", " ", "c">>
DedupeTitles == {TitleAB, TitleAB2, TitleBCA, TitleAC}

UrlHttpWwwFrag == <<"http:", "//", "WWW.", "Example.com", "/a", "#f">>
UrlHttps       == <<"https:", "//", "example.com", "/a">>
UrlHttp        == <<"http:", "//", "example.com", "/a">>
DedupeUrls == {UrlHttpWwwFrag, UrlHttps, UrlHttp}

ContentX == <<"x">>
ContentY == <<"y">>
StubHash == <<"h", "a", "s", "h">>

SourceOfUrl(url) == IF url = UrlHttps THEN "theblock" ELSE "coindesk"

DedupeItemPool ==
    { [ id |-> 0, source |-> SourceOfUrl(u), url |-> u, title |-> t,
        content_text |-> c, hash |-> h ] :
        u \in DedupeUrls, t \in DedupeTitles,
        <<c, h>> \in {<<ContentX, "computed">>, <<ContentY, "stub">>} }

\* the NewsItem of pool record r at input position i
PoolItem(r, i) ==
    [r EXCEPT !.id = i,
              !.hash = IF r.hash = "stub" THEN StubHash
                       ELSE compute_hash(r.title, r.content_text)]

BoundedSeqs(S, n) == UNION {[1..k -> S] : k \in 0..n}

\* thresholds, in percent; news_fetch.handler passes 0.9
DedupeThresholds == {0, 80, 90, 100}

NoResult == <<"none">>

InitDedupe ==
    /\ pc = "start"
    /\ \E rs \in BoundedSeqs(DedupeItemPool, MaxItems) :
           items = [i \in 1..Len(rs) |-> PoolItem(rs[i], i)]
    /\ threshold \in DedupeThresholds
    /\ deduped = NoResult
    /\ again = NoResult
    /\ entries = <<>>
    /\ hydrated = <<>>
    /\ batch = <<>>
    /\ window = 0
    /\ simThreshold = 0
    /\ runs = <<>>
    /\ args = <<>>
    /\ ret = NoResult
    /\ heap = <<>>
    /\ frames = <<>>

\* deduped = dedupe_items(items, threshold)
CallDedupe ==
    /\ pc = "start"
    /\ deduped' = dedupe_items(items, threshold)
    /\ pc' = "deduped"
    /\ UNCHANGED <<items, threshold, again, entries, hydrated, batch, window,
                   simThreshold, runs, args, ret, heap, frames>>

\* again = dedupe_items(deduped, threshold)
CallDedupeAgain ==
    /\ pc = "deduped"
    /\ again' = dedupe_items(deduped, threshold)
    /\ pc' = "done"
    /\ UNCHANGED <<items, threshold, deduped, entries, hydrated, batch, window,
                   simThreshold, runs, args, ret, heap, frames>>

NextDedupe == CallDedupe \/ CallDedupeAgain

SpecDedupe == InitDedupe /\ [][NextDedupe]_vars

(***************************************************************************)
(* Properties of dedupe_items.                                             *)
(***************************************************************************)
\* the input positions of the records of out, in output order
KeptIds(out) == [k \in 1..Len(out) |-> out[k].id]

\* the record at input position i is in out
IsKept(out, i) == \E k \in 1..Len(out) : out[k].id = i

\* out consists of records of input, in the order of input, each at most once
IsSubsequenceOf(out, input) ==
    /\ Len(out) <= Len(input)
    /\ \A k \in 1..Len(out) :
          \E i \in 1..Len(input) :
             /\ out[k] = input[i]
             /\ out[k].id = input[i].id
    /\ \A k \in 1..Len(out), l \in 1..Len(out) :
          k < l =>
             \E i \in 1..Len(input), j \in 1..Len(input) :
                i < j /\ input[i] = out[k] /\ input[j] = out[l]

\* C1: dedupe is idempotent: dedupe_items(dedupe_items(X, t), t) is exactly
\* dedupe_items(X, t), for every input X and threshold t.
C1_DedupeIdempotent == pc = "done" => again = deduped

\* a run where the first pass dropped a record and kept two, so that the second
\* pass had accepted records to compare with each other
C1_Witness ==
    /\ pc = "done"
    /\ Len(deduped) = 2
    /\ Len(items) = 3
    /\ again = deduped

\* C2: the output of dedupe_items(X, t) is a subsequence of X (same records,
\* same relative order, nothing added or duplicated), at most as long as X.
C2_DedupeSubsequence ==
    pc # "start" =>
        /\ IsSubsequenceOf(deduped, items)
        /\ Len(deduped) <= Len(items)
        /\ \A k \in 1..Len(deduped), l \in 1..Len(deduped) :
              k < l => deduped[k].id < deduped[l].id

\* a run whose output is a proper, non-contiguous part of the input
C2_Witness ==
    /\ pc = "deduped"
    /\ Len(items) = 3
    /\ KeptIds(deduped) = <<1, 3>>

\* C3: first seen wins: the first record of a non-empty input is in the output,
\* and a record is dropped only if an earlier record that is itself kept
\* matches it (equal fingerprint, equal canonical URL, or title similarity at
\* least the threshold); no record is dropped on account of a later one.
C3_FirstSeenWins ==
    pc # "start" =>
        /\ items # <<>> => (deduped # <<>> /\ deduped[1] = items[1])
        /\ \A i \in 1..Len(items) :
              ~ IsKept(deduped, i) =>
                 \E j \in 1..(i - 1) :
                    /\ IsKept(deduped, j)
                    /\ IsDuplicateOf(items[j], items[i], threshold)

\* a run where the second record matches the third but is itself dropped, so the
\* third is kept: a later record never costs an earlier kept one its place
C3_Witness ==
    /\ pc = "deduped"
    /\ Len(items) = 3
    /\ KeptIds(deduped) = <<1, 3>>
    /\ IsDuplicateOf(items[2], items[3], threshold)
    /\ ~ IsDuplicateOf(items[1], items[3], threshold)

\* C4: fingerprint equality: of two input records with identical normalized
\* title and identical normalized content, whatever their source and URL, at
\* most one is in the output, for every threshold.
C4_FingerprintEquality ==
    pc # "start" =>
        \A i \in 1..Len(items), j \in 1..Len(items) :
           ( /\ i < j
             /\ normalize_title(items[i].title) = normalize_title(items[j].title)
             /\ normalize_text(items[i].content_text)
                    = normalize_text(items[j].content_text) )
           => ~ (IsKept(deduped, i) /\ IsKept(deduped, j))

\* two records with the same normalized title and content, written differently
\* and from different sources and URLs, with an unrelated record between them:
\* the first is kept, the second dropped
C4_Witness ==
    /\ pc = "deduped"
    /\ Len(items) = 3
    /\ items[1].title # items[3].title
    /\ normalize_title(items[1].title) = normalize_title(items[3].title)
    /\ items[1].content_text = items[3].content_text
    /\ items[1].source # items[3].source
    /\ canonicalize_url(items[1].url) # canonicalize_url(items[3].url)
    /\ KeptIds(deduped) = <<1, 2>>

\* C5 as stated: http://WWW.Example.com/a#frag and https://example.com/a
\* canonicalize to the same string, so a batch of two records carrying them
\* dedupes to its first record even when the fingerprints differ and the
\* titles are less similar than the threshold.
C5_AsStated ==
    ( /\ pc # "start"
      /\ Len(items) = 2
      /\ {items[1].url, items[2].url} = {UrlHttpWwwFrag, UrlHttps}
      /\ items[1].hash # items[2].hash
      /\ ~ RatioAtLeast(token_sort_ratio(normalize_title(items[1].title),
                                         normalize_title(items[2].title)), threshold) )
    => /\ canonicalize_url(items[1].url) = canonicalize_url(items[2].url)
       /\ deduped = <<items[1]>>

\* C5, amended: http://WWW.Example.com/a#frag and http://example.com/a (the
\* same scheme) canonicalize to the same string, so of two records carrying
\* them at most one is kept, and a batch of just the two dedupes to its first
\* record, whatever the titles, fingerprints and threshold; with https on one
\* side only the canonical strings differ.
C5_UrlEqualitySameScheme ==
    /\ canonicalize_url(UrlHttpWwwFrag) # canonicalize_url(UrlHttps)
    /\ pc # "start" =>
          \A i \in 1..Len(items), j \in 1..Len(items) :
             ( /\ i < j
               /\ {items[i].url, items[j].url} = {UrlHttpWwwFrag, UrlHttp} )
             => /\ canonicalize_url(items[i].url) = canonicalize_url(items[j].url)
                /\ ~ (IsKept(deduped, i) /\ IsKept(deduped, j))
                /\ Len(items) = 2 => deduped = <<items[1]>>

\* the two URLs on records whose fingerprints differ and whose titles are
\* less similar than the threshold: the later record is dropped by the URL
C5_Witness ==
    /\ pc = "deduped"
    /\ Len(items) = 2
    /\ items[1].url = UrlHttpWwwFrag
    /\ items[2].url = UrlHttp
    /\ items[1].hash # items[2].hash
    /\ ~ RatioAtLeast(token_sort_ratio(normalize_title(items[1].title),
                                       normalize_title(items[2].title)), threshold)
    /\ deduped = <<items[1]>>

(***************************************************************************)
(* news_fetch.py: hydrate_entry, which builds the NewsItem of a feed entry *)
(* and is the one caller of compute_hash: the URL is canonicalized, the    *)
(* extracted text is normalized and the fingerprint is computed from the   *)
(* entry's title and the normalized text.  NewsItem strips its string      *)
(* fields (schemas.py: anystr_strip_whitespace).                           *)
(***************************************************************************)
\* a faulty hydration: the fingerprint is computed from the text as extracted
hydrate_entryRawContent(source, entry, id) ==
    [ id           |-> id,
      source       |-> source,
      url          |-> canonicalize_url(entry.url),
      title        |-> Strip(entry.title),
      content_text |-> normalize_text(entry.content),
      hash         |-> compute_hash(entry.title, entry.content) ]

hydrate_entry(source, entry, id) ==
    LET url          == canonicalize_url(entry.url)
        content_norm == normalize_text(entry.content)
        news_hash    == compute_hash(entry.title, content_norm)
    IN  [ id           |-> id,
          source       |-> source,
          url          |-> url,
          title        |-> Strip(entry.title),
          content_text |-> content_norm,
          hash         |-> news_hash ]

\* the URLs of feed entries: with or without scheme, with a netloc after "//"
\* or with none, with and without path, query and fragment
EntryNetlocs ==
    { <<"example.com">>, <<"Example.com">>, <<"www.", "example.com">>,
      <<"WWW.", "Example.com">>, <<"www.", "www.", "example.com">> }

EntryAuthorities ==
    { <<"//">> \o n : n \in EntryNetlocs }
        \cup { <<>>, <<"example.com">>, <<"Example.com">> }

EntryUrls ==
    { s \o a \o p \o q \o f :
        s \in {<<>>, <<"http:">>, <<"https:">>},
        a \in EntryAuthorities,
        p \in {<<>>, <<"/a">>},
        q \in {<<>>, <<"?q">>},
        f \in {<<>>, <<"#f">>} }

\* the titles and extracted texts of feed entries, not yet normalized
EntryTitles ==
    { <<"a", " ", "b">>, <<"A", " ", "\t", "b">>, <<" ", "a", " ", "b", " ">>,
      <<"a", " ", "c">> }

EntryContents ==
    { <<>>, <<" ">>, <<"x">>, <<"x", " ", "y">>, <<"x", "\t", " ", "y", " ">>,
      <<" ", "X", " ", "y">> }

\* the sources of the first and the second entry
EntrySources == <<"coindesk", "theblock">>

InitHydrate ==
    /\ pc = "collect"
    /\ \/ \E u1 \in EntryUrls, u2 \in EntryUrls :
             entries = << [url |-> u1, title |-> TitleAB, content |-> ContentX],
                          [url |-> u2, title |-> TitleAC, content |-> ContentY] >>
       \/ \E t1 \in EntryTitles, t2 \in EntryTitles,
             c1 \in EntryContents, c2 \in EntryContents :
             entries = << [url |-> UrlHttpWwwFrag, title |-> t1, content |-> c1],
                          [url |-> UrlHttps, title |-> t2, content |-> c2] >>
    /\ hydrated = <<>>
    /\ items = <<>>
    /\ threshold = 0
    /\ deduped = NoResult
    /\ again = NoResult
    /\ batch = <<>>
    /\ window = 0
    /\ simThreshold = 0
    /\ runs = <<>>
    /\ args = <<>>
    /\ ret = NoResult
    /\ heap = <<>>
    /\ frames = <<>>

\* collect_source_news: one turn of the loop over the entries,
\* collected.append(hydrate_entry(source, entry, log))
HydrateNext ==
    /\ pc = "collect"
    /\ Len(hydrated) < Len(entries)
    /\ LET k == Len(hydrated) + 1
       IN  hydrated' = Append(hydrated, hydrate_entry(EntrySources[k], entries[k], k))
    /\ pc' = IF Len(hydrated) + 1 = Len(entries) THEN "collected" ELSE "collect"
    /\ UNCHANGED <<items, threshold, deduped, again, entries, batch, window,
                   simThreshold, runs, args, ret, heap, frames>>

NextHydrate == HydrateNext

SpecHydrate == InitHydrate /\ [][NextHydrate]_vars

LowerNetloc(n) == [i \in 1..Len(n) |-> LowerLexeme(n[i])]

\* n2 is n1 with a "www." label (in any letter case) put in front
IsWwwPrefixed(n1, n2) ==
    /\ n2 # <<>>
    /\ LowerLexeme(n2[1]) = "www."
    /\ LowerNetloc(Tail(n2)) = LowerNetloc(n1)

\* u and v have the same scheme, path and query, and their netlocs differ at
\* most in letter case and in one leading "www." label; the fragments are free
DifferOnlyInFragmentCaseWww(u, v) ==
    LET p == urlparse(u)
        q == urlparse(v)
    IN  /\ p.scheme = q.scheme
        /\ p.path = q.path
        /\ p.query = q.query
        /\ \/ LowerNetloc(p.netloc) = LowerNetloc(q.netloc)
           \/ IsWwwPrefixed(p.netloc, q.netloc)
           \/ IsWwwPrefixed(q.netloc, p.netloc)

\* the same, the "www." label being put in front of a netloc that does not
\* itself start with "www."
DifferOnlyInFragmentCaseOneWww(u, v) ==
    LET p == urlparse(u)
        q == urlparse(v)
        bare(n) == n = <<>> \/ LowerLexeme(n[1]) # "www."
    IN  /\ p.scheme = q.scheme
        /\ p.path = q.path
        /\ p.query = q.query
        /\ \/ LowerNetloc(p.netloc) = LowerNetloc(q.netloc)
           \/ (bare(p.netloc) /\ IsWwwPrefixed(p.netloc, q.netloc))
           \/ (bare(q.netloc) /\ IsWwwPrefixed(q.netloc, p.netloc))

\* the canonical URL of each hydrated entry carries the entry's query string
QueryKept ==
    \A k \in 1..Len(hydrated) :
       urlparse(hydrated[k].url).query = urlparse(entries[k].url).query

\* C7 as stated: any two URLs that differ only in their fragment, in the letter
\* case of the host or in a leading www. host label canonicalize to the same
\* string, and the query string is kept.
C7_AsStated ==
    pc = "collected" =>
        /\ QueryKept
        /\ DifferOnlyInFragmentCaseWww(entries[1].url, entries[2].url)
              => hydrated[1].url = hydrated[2].url

\* C7, amended: any two URLs that differ only in their fragment, in the letter
\* case of the netloc, or in a leading www. label in front of a netloc that does
\* not itself start with www., canonicalize to the same string, and the query
\* string is kept.
C7_CanonicalizeUnifies ==
    pc = "collected" =>
        /\ QueryKept
        /\ DifferOnlyInFragmentCaseOneWww(entries[1].url, entries[2].url)
              => hydrated[1].url = hydrated[2].url

\* two URLs with a query that differ in the fragment, in the case of the host
\* and in the www. label at once, and get the same canonical URL with the query
C7_Witness ==
    /\ pc = "collected"
    /\ urlparse(entries[1].url).netloc = <<"WWW.", "Example.com">>
    /\ urlparse(entries[2].url).netloc = <<"example.com">>
    /\ urlparse(entries[1].url).fragment # urlparse(entries[2].url).fragment
    /\ urlparse(entries[1].url).query = <<"?q">>
    /\ DifferOnlyInFragmentCaseOneWww(entries[1].url, entries[2].url)
    /\ hydrated[1].url = hydrated[2].url
    /\ urlparse(hydrated[1].url).query = <<"?q">>

(***************************************************************************)
(* confirm.py: SOURCE_WEIGHTS, ENTITY_PATTERNS, extract_entities,          *)
(* score_cluster                                                           *)
(***************************************************************************)
\* the table read with a default of 1.0
SourceWeightHalvesDefaultOne(source) ==
    IF source = "cryptopanic" THEN 4 ELSE 2

\* SOURCE_WEIGHTS.get(source, 0.5), in halves
SourceWeightHalves(source) ==
    CASE source = "coindesk"    -> 2
      [] source = "theblock"    -> 2
      [] source = "blockworks"  -> 2
      [] source = "cryptopanic" -> 4
      [] source = "messari"     -> 2
      [] OTHER                  -> 1

\* the regular expressions, character by character: \b, the token, \b
ENTITY_PATTERNS ==
    <<
       <<"\\", "b", "B", "T", "C", "\\", "b">>,
       <<"\\", "b", "E", "T", "H", "\\", "b">>,
       <<"\\", "b", "S", "O", "L", "\\", "b">>,
       <<"\\", "b", "X", "R", "P", "\\", "b">>,
       <<"\\", "b", "S", "E", "C", "\\", "b">>,
       <<"\\", "b", "E", "T", "F", "\\", "b">>,
       <<"\\", "b", "h", "a", "c", "k", "\\", "b">>,
       <<"\\", "b", "f", "u", "n", "d", "i", "n", "g", " ", "r", "a", "t", "e", "\\", "b">>,
       <<"\\", "b", "l", "i", "s", "t", "i", "n", "g", "\\", "b">>
    >>

\* pattern.strip(r"\b"): backslashes and letters b are removed from both ends
StripBackslashB(pattern) ==
    LET keep == {i \in 1..Len(pattern) : pattern[i] \notin {"\\", "b"}}
    IN  IF keep = {} THEN <<>>
        ELSE SubSeq(pattern, CHOOSE i \in keep : \A j \in keep : i <= j,
                             CHOOSE i \in keep : \A j \in keep : j <= i)

\* the search without the two \b: the token anywhere in the text
PatternMatchesAnywhere(pattern, text) ==
    LET token == Lower(SubSeq(pattern, 3, Len(pattern) - 2))
        folded == Lower(text)
        n     == Len(token)
    IN  \E i \in 1..(Len(text) - n + 1) :
           \A k \in 1..n : folded[i + k - 1] = token[k]

\* re.search(pattern, text, re.IGNORECASE) for a pattern \b token \b whose token
\* starts and ends with a word character: the token occurs in text, letter case
\* ignored, with no word character right before it and none right after it
PatternMatches(pattern, text) ==
    LET token == Lower(SubSeq(pattern, 3, Len(pattern) - 2))
        folded == Lower(text)
        n     == Len(token)
    IN  \E i \in 1..(Len(text) - n + 1) :
           /\ \A k \in 1..n : folded[i + k - 1] = token[k]
           /\ i = 1 \/ ~ IsWordChar(text[i - 1])
           /\ i + n - 1 = Len(text) \/ ~ IsWordChar(text[i + n])

\* sorted(set of strings), as a sequence
RECURSIVE SortedStrings(_)
SortedStrings(set) ==
    IF set = {} THEN <<>>
    ELSE LET least == CHOOSE x \in set : \A y \in set : y = x \/ StrLess(x, y)
         IN  <<least>> \o SortedStrings(set \ {least})

extract_entities(text) ==
    LET lowered == Lower(text)
    IN  SortedStrings({ Upper(StripBackslashB(ENTITY_PATTERNS[i])) :
                          i \in {k \in 1..Len(ENTITY_PATTERNS) :
                                    PatternMatches(ENTITY_PATTERNS[k], lowered)} })

\* normalization.py: ensure_utc.  A datetime is [at, tz]: the seconds its clock
\* fields read, and "utc" or "naive" (no tzinfo).  A naive value is taken to be
\* UTC; a UTC value is returned as it is.
ensure_utc(value) ==
    IF value.tz = "naive" THEN [at |-> value.at, tz |-> "utc"] ELSE value

MaxOf(set) == CHOOSE x \in set : \A y \in set : y <= x
MinOf(set) == CHOOSE x \in set : \A y \in set : x <= y

\* round(n / d) for n >= 0 and d > 0, ties to even
RoundDiv(n, d) ==
    LET q == n \div d
        r == n % d
    IN  IF 2 * r > d \/ (2 * r = d /\ q % 2 = 1) THEN q + 1 ELSE q

RECURSIVE Gcd(_, _)
Gcd(x, y) == IF y = 0 THEN x ELSE Gcd(y, x % y)

\* the fraction r in lowest terms
Reduced(r) ==
    LET g == Gcd(r.num, r.den)
    IN  [num |-> r.num \div g, den |-> r.den \div g]

RECURSIVE SumWeightHalves(_)
\* sum(SOURCE_WEIGHTS.get(source, 0.5) for source in sources), in halves
SumWeightHalves(sources) ==
    IF sources = {} THEN 0
    ELSE LET x == CHOOSE y \in sources : TRUE
         IN  SourceWeightHalves(x) + SumWeightHalves(sources \ {x})

\* the delta taken without the floor of one hour
DeltaSecondsUnclamped(list, now) ==
    LET latest == MaxOf({ensure_utc(list[i].published_at).at : i \in 1..Len(list)})
        delta  == ensure_utc(now).at - latest
    IN  IF delta < 0 THEN 0 ELSE delta

\* delta_hours = max(1, (now - ensure_utc(latest)).total_seconds() / 3600), in
\* seconds (3600 is one hour); read only when there are items
DeltaSeconds(list, now) ==
    LET latest == MaxOf({ensure_utc(list[i].published_at).at : i \in 1..Len(list)})
        delta  == ensure_utc(now).at - latest
    IN  IF delta < 3600 THEN 3600 ELSE delta

\* freshness, in seconds out of 86400: freshness = max(0.0, 1.0 - delta_hours /
\* 24.0); 0.0 for no items
FreshnessSeconds(list, now) ==
    IF list = <<>> THEN 0
    ELSE LET clamp == DeltaSeconds(list, now)
         IN  IF clamp > 86400 THEN 0 ELSE 86400 - clamp

\* the score capped at 1.0
score_clusterCapped(list, similarity, now) ==
    LET sim == Reduced(similarity)
        w   == SumWeightHalves({list[i].source : i \in 1..Len(list)})
        f   == FreshnessSeconds(list, now)
        x   == RoundDiv(6000 * 432 * sim.num + 1500 * 432 * w * sim.den + 5 * f * sim.den,
                        432 * sim.den)
    IN  IF x > 10000 THEN 10000 ELSE x

\* score_cluster(items, similarity), now being what datetime.now reads:
\* round(0.6 * similarity + 0.3 * source_weight + 0.1 * freshness, 4), in
\* ten-thousandths.  With similarity = num/den, source_weight = w/2 and
\* freshness = f/86400 the score times 10000 is
\* (6000*432*num + 1500*432*w*den + 5*f*den) / (432*den).
score_cluster(list, similarity, now) ==
    LET sim == Reduced(similarity)
        w   == SumWeightHalves({list[i].source : i \in 1..Len(list)})
        f   == FreshnessSeconds(list, now)
    IN  RoundDiv(6000 * 432 * sim.num + 1500 * 432 * w * sim.den + 5 * f * sim.den,
                 432 * sim.den)

(***************************************************************************)
(* confirm.py: cluster_news_items                                          *)
(***************************************************************************)
\* one insertion of a sort that is not stable: v goes before the elements of
\* equal key
InsertByTimeBeforeEquals(sorted, v) ==
    LET n == Cardinality({k \in 1..Len(sorted) :
                             sorted[k].published_at.at < v.published_at.at})
    IN  SubSeq(sorted, 1, n) \o <<v>> \o SubSeq(sorted, n + 1, Len(sorted))

\* one insertion of the stable sorted(items, key=published_at): v goes after
\* every element whose key is not greater
InsertByTime(sorted, v) ==
    LET n == Cardinality({k \in 1..Len(sorted) :
                             sorted[k].published_at.at <= v.published_at.at})
    IN  SubSeq(sorted, 1, n) \o <<v>> \o SubSeq(sorted, n + 1, Len(sorted))

RECURSIVE SortByTimeFrom(_, _, _)
SortByTimeFrom(list, i, acc) ==
    IF i > Len(list) THEN acc
    ELSE SortByTimeFrom(list, i + 1, InsertByTime(acc, list[i]))

\* the items taken in input order, not sorted
sorted_itemsAsGiven(list) == list

\* the items sorted with the newest first
sorted_itemsNewestFirst(list) ==
    LET asc == SortByTimeFrom(list, 1, <<>>)
    IN  [k \in 1..Len(asc) |-> asc[Len(asc) + 1 - k]]

sorted_items(list) == SortByTimeFrom(list, 1, <<>>)

AbsDiff(x, y) == IF x >= y THEN x - y ELSE y - x

\* the test of the inner loop with a gap of exactly the window already skipped
JoinsClusterWithinOpenWindow(last_item, item, window_minutes, t) ==
    /\ ~ ( AbsDiff(ensure_utc(item.published_at).at,
                   ensure_utc(last_item.published_at).at) >= window_minutes * 60 )
    /\ RatioAtLeast(token_sort_ratio(normalize_title(last_item.title),
                                     normalize_title(item.title)), t)

\* the test of the inner loop: item joins the cluster whose last item is last_item
JoinsCluster(last_item, item, window_minutes, t) ==
    /\ ~ ( AbsDiff(ensure_utc(item.published_at).at,
                   ensure_utc(last_item.published_at).at) > window_minutes * 60 )
    /\ RatioAtLeast(token_sort_ratio(normalize_title(last_item.title),
                                     normalize_title(item.title)), t)

RECURSIVE GroupFromFirstAnchor(_, _, _, _, _)
\* the first loop with the window and the similarity measured from the first
\* member of each cluster
GroupFromFirstAnchor(sorted, i, clusters, window_minutes, t) ==
    IF i > Len(sorted) THEN clusters
    ELSE LET item == sorted[i]
             hits == {c \in 1..Len(clusters) :
                         JoinsCluster(clusters[c][1], item, window_minutes, t)}
         IN  GroupFromFirstAnchor(sorted, i + 1,
                       IF hits = {} THEN Append(clusters, <<item>>)
                       ELSE LET c == MinOf(hits)
                            IN  [clusters EXCEPT ![c] = Append(clusters[c], item)],
                       window_minutes, t)

\* of the clusters in hits, the one whose last item is most similar to item,
\* the earliest started among equals
BestOf(hits, clusters, item) ==
    LET sim(c) == token_sort_ratio(normalize_title(clusters[c][Len(clusters[c])].title),
                                   normalize_title(item.title))
    IN  CHOOSE c \in hits :
            \A d \in hits :
                \/ sim(c).num * sim(d).den > sim(d).num * sim(c).den
                \/ (sim(c).num * sim(d).den = sim(d).num * sim(c).den /\ c <= d)

RECURSIVE GroupFromBestMatch(_, _, _, _, _)
\* the first loop with the item given to the best matching cluster instead of
\* the first matching one
GroupFromBestMatch(sorted, i, clusters, window_minutes, t) ==
    IF i > Len(sorted) THEN clusters
    ELSE LET item == sorted[i]
             hits == {c \in 1..Len(clusters) :
                         JoinsCluster(clusters[c][Len(clusters[c])], item,
                                      window_minutes, t)}
         IN  GroupFromBestMatch(sorted, i + 1,
                       IF hits = {} THEN Append(clusters, <<item>>)
                       ELSE LET c == BestOf(hits, clusters, item)
                            IN  [clusters EXCEPT ![c] = Append(clusters[c], item)],
                       window_minutes, t)

RECURSIVE GroupFromNoBreak(_, _, _, _, _)
\* the first loop without its break: the item is appended to every cluster
\* that takes it
GroupFromNoBreak(sorted, i, clusters, window_minutes, t) ==
    IF i > Len(sorted) THEN clusters
    ELSE LET item == sorted[i]
             hits == {c \in 1..Len(clusters) :
                         JoinsCluster(clusters[c][Len(clusters[c])], item,
                                      window_minutes, t)}
         IN  GroupFromNoBreak(sorted, i + 1,
                       IF hits = {} THEN Append(clusters, <<item>>)
                       ELSE [c \in 1..Len(clusters) |->
                                IF c \in hits THEN Append(clusters[c], item)
                                ELSE clusters[c]],
                       window_minutes, t)

RECURSIVE GroupFrom(_, _, _, _, _)
\* the first loop, from position i of the sorted items on; clusters is the list
\* of the item lists built so far, in the order they were started
GroupFrom(sorted, i, clusters, window_minutes, t) ==
    IF i > Len(sorted) THEN clusters
    ELSE LET item == sorted[i]
             hits == {c \in 1..Len(clusters) :
                         JoinsCluster(clusters[c][Len(clusters[c])], item,
                                      window_minutes, t)}
         IN  GroupFrom(sorted, i + 1,
                       IF hits = {} THEN Append(clusters, <<item>>)
                       ELSE LET c == MinOf(hits)
                            IN  [clusters EXCEPT ![c] = Append(clusters[c], item)],
                       window_minutes, t)

\* the larger of two fractions
MaxRatio(r1, r2) == IF r1.num * r2.den >= r2.num * r1.den THEN r1 ELSE r2

RECURSIVE IntraFrom(_, _, _)
\* max(token_sort_ratio(base, title of item) for item in cluster_items[1:])
IntraFrom(cluster_items, i, best) ==
    IF i > Len(cluster_items) THEN best
    ELSE LET r == token_sort_ratio(normalize_title(cluster_items[1].title),
                                   normalize_title(cluster_items[i].title))
         IN  IntraFrom(cluster_items, i + 1, IF i = 2 THEN r ELSE MaxRatio(best, r))

\* the maximum taken over all the items, the first one included
IntraSimilarityOverAll(cluster_items) == IntraFrom(cluster_items, 1, [num |-> 0, den |-> 1])

RECURSIVE IntraConsecutiveFrom(_, _, _)
IntraConsecutiveFrom(cluster_items, i, best) ==
    IF i > Len(cluster_items) THEN best
    ELSE LET r == token_sort_ratio(normalize_title(cluster_items[i - 1].title),
                                   normalize_title(cluster_items[i].title))
         IN  IntraConsecutiveFrom(cluster_items, i + 1,
                                  IF i = 2 THEN r ELSE MaxRatio(best, r))

\* the maximum taken over the pairs of consecutive items
IntraSimilarityConsecutive(cluster_items) ==
    IF Len(cluster_items) > 1
    THEN IntraConsecutiveFrom(cluster_items, 2, [num |-> 0, den |-> 1])
    ELSE [num |-> 0, den |-> 1]

\* the similarity of the first item with the last one only
IntraSimilarityWithLast(cluster_items) ==
    IF Len(cluster_items) > 1
    THEN token_sort_ratio(normalize_title(cluster_items[1].title),
                          normalize_title(cluster_items[Len(cluster_items)].title))
    ELSE [num |-> 0, den |-> 1]

IntraSimilarity(cluster_items) ==
    IF Len(cluster_items) > 1 THEN IntraFrom(cluster_items, 2, [num |-> 0, den |-> 1])
    ELSE [num |-> 0, den |-> 1]

RECURSIVE JoinTitlesFrom(_, _, _)
\* " ".join(item.title for item in cluster_items)
JoinTitlesFrom(cluster_items, i, acc) ==
    IF i > Len(cluster_items) THEN acc
    ELSE JoinTitlesFrom(cluster_items, i + 1,
                        IF i = 1 THEN cluster_items[i].title
                        ELSE acc \o <<" ">> \o cluster_items[i].title)

\* Optional[str]: None, apart from every string
None == <<"None">>

\* the truth value of an Optional[str]: None and "" are false
Truthy(value) == value # None /\ value # <<>>

\* the NewsCluster with the summary replaced by the title only when it is None
NewsClusterSummaryUnlessNone(cluster_items, cluster_id, now) ==
    LET similarity == IntraSimilarity(cluster_items)
        times      == {cluster_items[i].published_at.at : i \in 1..Len(cluster_items)}
    IN  [ cluster_id      |-> cluster_id,
          canonical_title |-> cluster_items[1].title,
          summary         |-> IF cluster_items[1].summary # None
                              THEN cluster_items[1].summary
                              ELSE cluster_items[1].title,
          score           |-> score_cluster(cluster_items, similarity, now),
          source_count    |-> Cardinality({cluster_items[i].source :
                                              i \in 1..Len(cluster_items)}),
          entities        |-> extract_entities(JoinTitlesFrom(cluster_items, 1, <<>>)),
          sentiment_hint  |-> "None",
          first_seen      |-> MinOf(times),
          last_seen       |-> MaxOf(times),
          links           |-> [i \in 1..Len(cluster_items) |->
                                  [ source |-> cluster_items[i].source,
                                    url    |-> cluster_items[i].url,
                                    title  |-> cluster_items[i].title ]] ]

\* the NewsCluster of one item list; cluster_id is what uuid.uuid4 returned and
\* now what datetime.now read
NewsCluster(cluster_items, cluster_id, now) ==
    LET similarity == IntraSimilarity(cluster_items)
        times      == {cluster_items[i].published_at.at : i \in 1..Len(cluster_items)}
    IN  [ cluster_id      |-> cluster_id,
          canonical_title |-> cluster_items[1].title,
          summary         |-> IF Truthy(cluster_items[1].summary)
                              THEN cluster_items[1].summary
                              ELSE cluster_items[1].title,
          score           |-> score_cluster(cluster_items, similarity, now),
          source_count    |-> Cardinality({cluster_items[i].source :
                                              i \in 1..Len(cluster_items)}),
          entities        |-> extract_entities(JoinTitlesFrom(cluster_items, 1, <<>>)),
          sentiment_hint  |-> "None",
          first_seen      |-> MinOf(times),
          last_seen       |-> MaxOf(times),
          links           |-> [i \in 1..Len(cluster_items) |->
                                  [ source |-> cluster_items[i].source,
                                    url    |-> cluster_items[i].url,
                                    title  |-> cluster_items[i].title ]] ]

\* a variant that leaves out the clusters whose freshness is 0.0 at the time
\* of the call
cluster_news_itemsDropStale(list, window_minutes, t, uuids, now) ==
    LET clusters == GroupFrom(sorted_items(list), 1, <<>>, window_minutes, t)
        fresh    == SelectSeq(clusters, LAMBDA c : FreshnessSeconds(c, now) > 0)
    IN  [c \in 1..Len(fresh) |-> NewsCluster(fresh[c], uuids[c], now)]

\* cluster_news_items(items, window_minutes, similarity_threshold): uuids are
\* the identifiers uuid.uuid4 hands out, one per cluster, now what the clock reads
cluster_news_items(list, window_minutes, t, uuids, now) ==
    LET clusters == GroupFrom(sorted_items(list), 1, <<>>, window_minutes, t)
    IN  [c \in 1..Len(clusters) |-> NewsCluster(clusters[c], uuids[c], now)]

\* the local variables of score_cluster(items, similarity) at its return
score_clusterLocals(list, similarity, now) ==
    [ delta_hours   |-> IF list = <<>> THEN 0 ELSE DeltaSeconds(list, now),
      freshness     |-> FreshnessSeconds(list, now),
      source_weight |-> SumWeightHalves({list[i].source : i \in 1..Len(list)}),
      score         |-> score_cluster(list, similarity, now) ]

\* the local variables of the second loop of cluster_news_items, one record
\* for each cluster: its items, its similarity and what score_cluster computed
cluster_news_itemsLocals(list, window_minutes, t, now) ==
    LET clusters == GroupFrom(sorted_items(list), 1, <<>>, window_minutes, t)
    IN  [c \in 1..Len(clusters) |->
            LET similarity == IntraSimilarity(clusters[c])
            IN  [ cluster_items |-> clusters[c],
                  similarity    |-> similarity,
                  scorer        |-> score_clusterLocals(clusters[c], similarity, now) ]]

\* sorted(items, key=published_at) raises TypeError when it compares a datetime
\* without tzinfo with one that has it, which it does as soon as both occur
SortRaises(list) ==
    \E i, j \in 1..Len(list) : list[i].published_at.tz # list[j].published_at.tz

(***************************************************************************)
(* analyze_news: calls of cluster_news_items                               *)
(***************************************************************************)
\* the headlines of the pool: a title and the source that published it
ClusterHeadlines ==
    { <<TitleAB, "coindesk">>, <<TitleBCA, "coindesk">>,
      <<TitleBCA, "theblock">>, <<TitleAC, "theblock">> }
\* publication times, in seconds: fifteen minutes apart
ClusterTimes   == {0, 900, 1800}
\* confirm_window_minutes (at least 15) and similarity_threshold (percent, at
\* least 50) of the request
ClusterWindows    == {15, 20}
ClusterThresholds == {80, 90}
\* what datetime.now reads during an invocation, in seconds
NowChoices == {3600, 100000}

UrlOfSource(source) == IF source = "theblock" THEN UrlHttps ELSE UrlHttp

ClusterItemPool ==
    { [ id |-> 0, source |-> h[2], url |-> UrlOfSource(h[2]), title |-> h[1],
        summary |-> IF h[2] = "theblock" THEN ContentX ELSE <<>>,
        published_at |-> [at |-> p, tz |-> "utc"] ] :
        h \in ClusterHeadlines, p \in ClusterTimes }

\* records of one headline published at the same time by a source of weight
\* 1.0, a source of weight 2.0 and a source the table does not list
WeightSources == {"coindesk", "cryptopanic", "decrypt"}

WeightItemPool ==
    { [ id |-> 0, source |-> s, url |-> UrlOfSource(s), title |-> TitleAB,
        summary |-> None, published_at |-> [at |-> 0, tz |-> "utc"] ] :
        s \in WeightSources }

\* records the request validation lets through although the engine's contract
\* excludes them: an empty title, a published_at without tzinfo
UncheckedItemPool ==
    { [ id |-> 0, source |-> "coindesk", url |-> UrlHttp, title |-> t,
        summary |-> <<>>, published_at |-> [at |-> 0, tz |-> z] ] :
        t \in {<<>>, TitleAB}, z \in {"naive", "utc"} }

\* three headlines of one source of which the third ("a bcd") is 75% similar to
\* the first ("a b") and 8/9 similar to the second ("bc a"), itself 6/7 similar
\* to the first
TitleABCD == <<"a", " ", "b", "c", "d">>

FirstMatchItemPool ==
    { [ id |-> 0, source |-> "coindesk", url |-> UrlHttp, title |-> t,
        summary |-> <<>>, published_at |-> [at |-> p, tz |-> "utc"] ] :
        t \in {TitleAB, TitleBCA, TitleABCD}, p \in {0, 900} }

\* the two records of the end-to-end scenario, the first published at t0
TitleHacked  == <<"E", "x", "c", "h", "a", "n", "g", "e", " ", "X", " ", "h", "a", "c", "k", "e", "d", " ", "f", "o", "r", " ", "$", "1", "0", "M">>
TitleSuffers == <<"E", "x", "c", "h", "a", "n", "g", "e", " ", "X", " ", "s", "u", "f", "f", "e", "r", "s", " ", "$", "1", "0", "M", " ", "h", "a", "c", "k">>

E2EItems(t0) ==
    << [ id |-> 1, source |-> "coindesk", url |-> UrlHttp, title |-> TitleHacked,
         summary |-> <<>>, published_at |-> [at |-> t0, tz |-> "utc"] ],
       [ id |-> 2, source |-> "theblock", url |-> UrlHttps, title |-> TitleSuffers,
         summary |-> <<>>, published_at |-> [at |-> t0 + 600, tz |-> "utc"] ] >>

E2EStarts     == {0, 3600}
E2EWindows    == {15, 30}
E2EThresholds == {75, 77, 78, 80}

InitCluster ==
    /\ pc = "cluster"
    /\ \/ /\ \E rs \in BoundedSeqs(ClusterItemPool, MaxBatch) :
                 batch = [i \in 1..Len(rs) |-> [rs[i] EXCEPT !.id = i]]
          /\ window \in ClusterWindows
          /\ simThreshold \in ClusterThresholds
       \/ /\ \E t0 \in E2EStarts :
                 \/ batch = E2EItems(t0)
                 \/ batch = <<E2EItems(t0)[2], E2EItems(t0)[1]>>
          /\ window \in E2EWindows
          /\ simThreshold \in E2EThresholds
       \/ /\ \E rs \in BoundedSeqs(WeightItemPool, MaxBatch)
                       \cup BoundedSeqs(UncheckedItemPool, 2) :
                 batch = [i \in 1..Len(rs) |-> [rs[i] EXCEPT !.id = i]]
          /\ window = 15
          /\ simThreshold = 80
       \/ /\ \E rs \in BoundedSeqs(FirstMatchItemPool, MaxBatch) :
                 batch = [i \in 1..Len(rs) |-> [rs[i] EXCEPT !.id = i]]
          /\ window = 15
          /\ simThreshold \in ClusterThresholds
    /\ runs = <<>>
    /\ items = <<>>
    /\ threshold = 0
    /\ deduped = NoResult
    /\ again = NoResult
    /\ entries = <<>>
    /\ hydrated = <<>>
    /\ args = <<>>
    /\ ret = NoResult
    /\ heap = <<>>
    /\ frames = <<>>

\* one invocation of cluster_news_items(batch, window, simThreshold); the
\* clock reads now and uuid.uuid4 hands out identifiers never seen before
ClusterCall ==
    /\ pc = "cluster"
    /\ Len(runs) < 2
    /\ \E now \in NowChoices :
          LET r     == Len(runs) + 1
              uuids == [c \in 1..Len(batch) |-> <<r, c>>]
              clock == [at |-> now, tz |-> "utc"]
          IN  runs' = Append(runs,
                  IF SortRaises(batch)
                  THEN [ now |-> now, raised |-> "TypeError", clusters |-> <<>>,
                         locals |-> <<>> ]
                  ELSE [ now |-> now, raised |-> "no",
                         clusters |-> cluster_news_items(
                                          batch, window, simThreshold, uuids, clock),
                         locals |-> cluster_news_itemsLocals(
                                          batch, window, simThreshold, clock) ])
    /\ UNCHANGED <<pc, items, threshold, deduped, again, entries, hydrated, batch,
                   window, simThreshold, args, ret, heap, frames>>

NextCluster == ClusterCall

SpecCluster == InitCluster /\ [][NextCluster]_vars

\* what a cluster says about its members: everything but the identifier and
\* the score
Membership(cluster) ==
    [ canonical_title |-> cluster.canonical_title,
      summary         |-> cluster.summary,
      source_count    |-> cluster.source_count,
      entities        |-> cluster.entities,
      first_seen      |-> cluster.first_seen,
      last_seen       |-> cluster.last_seen,
      links           |-> cluster.links ]

\* C8: clustering determinism: two invocations of cluster_news_items on the
\* same input sequence, window and threshold produce the same number of
\* clusters, in the same order, with the same members in the same order,
\* whatever the clock reads and whatever identifiers are handed out.
C8_ClusteringDeterministic ==
    Len(runs) = 2 =>
        /\ Len(runs[1].clusters) = Len(runs[2].clusters)
        /\ \A c \in 1..Len(runs[1].clusters) :
               Membership(runs[1].clusters[c]) = Membership(runs[2].clusters[c])

\* two invocations at different times, on a batch holding two records with the
\* same timestamp, which produced several clusters, one of them with two members
C8_Witness ==
    /\ Len(runs) = 2
    /\ runs[1].now # runs[2].now
    /\ \E i, j \in 1..Len(batch) : i # j /\ batch[i].published_at = batch[j].published_at
    /\ Len(runs[1].clusters) >= 2
    /\ \E c \in 1..Len(runs[1].clusters) : Len(runs[1].clusters[c].links) = 2
    /\ runs[1].clusters[1].cluster_id # runs[2].clusters[1].cluster_id
    /\ runs[1].clusters[1].score # runs[2].clusters[1].score

\* the similarity of two titles as the clustering computes it
TitleRatio(x, y) == token_sort_ratio(normalize_title(x.title), normalize_title(y.title))

\* a batch of three records A, B, C given in time order, B within the window
\* of A, C within the window of B, every pair of titles similar enough
IsChain ==
    /\ Len(batch) = 3
    /\ batch[1].published_at.at <= batch[2].published_at.at
    /\ batch[2].published_at.at <= batch[3].published_at.at
    /\ batch[2].published_at.at - batch[1].published_at.at <= window * 60
    /\ batch[3].published_at.at - batch[2].published_at.at <= window * 60
    /\ \A i, j \in 1..3 : RatioAtLeast(TitleRatio(batch[i], batch[j]), simThreshold)

LinkOf(item) == [source |-> item.source, url |-> item.url, title |-> item.title]

\* C9: chained window: for three records A, B, C in time order, B within the
\* window of A, C within the window of B and all pairs of titles similar enough,
\* cluster_news_items returns one single cluster holding A, B and C in that
\* order, also when C was published more than the window after A.
C9_ChainedWindow ==
    IsChain =>
        \A k \in 1..Len(runs) :
            /\ Len(runs[k].clusters) = 1
            /\ runs[k].clusters[1].links = [i \in 1..3 |-> LinkOf(batch[i])]

\* a chain whose last record is more than the window after its first one, and
\* whose titles are not all the same, was clustered into one cluster of three
C9_Witness ==
    /\ IsChain
    /\ batch[3].published_at.at - batch[1].published_at.at > window * 60
    /\ batch[1].title # batch[2].title
    /\ Len(runs) >= 1
    /\ Len(runs[1].clusters) = 1
    /\ Len(runs[1].clusters[1].links) = 3

\* the batch is the end-to-end scenario: the "hacked" record of coindesk at T0,
\* then the "suffers" record of theblock ten minutes later
IsE2E ==
    /\ Len(batch) = 2
    /\ batch[1].title = TitleHacked /\ batch[1].source = "coindesk"
    /\ batch[2].title = TitleSuffers /\ batch[2].source = "theblock"
    /\ batch[2].published_at.at = batch[1].published_at.at + 600

\* the outcome the scenario expects of one result
E2EOutcome(clusters) ==
    /\ Len(clusters) = 1
    /\ clusters[1].source_count = 2
    /\ \E e \in 1..Len(clusters[1].entities) :
           clusters[1].entities[e] = <<"H", "A", "C", "K">>
    /\ clusters[1].first_seen = batch[1].published_at.at
    /\ clusters[1].last_seen = batch[1].published_at.at + 600

\* C10 as the claim states it: with window 15 and threshold 0.8 the scenario
\* yields one cluster with sourceCount 2, entities including HACK, firstSeen T0
\* and lastSeen T0 + 10 minutes.
C10_AsStated ==
    (IsE2E /\ window = 15 /\ simThreshold = 80) =>
        \A k \in 1..Len(runs) : E2EOutcome(runs[k].clusters)

\* C10, amended: with window 15 and a threshold of at most 0.77 the scenario
\* yields one cluster with sourceCount 2, entities including HACK, firstSeen
\* T0 and lastSeen T0 + 10 minutes; with a threshold of 0.78 or more, 0.8
\* included, it yields two clusters of one record each.
C10_EndToEndScenario ==
    (IsE2E /\ window = 15) =>
        \A k \in 1..Len(runs) :
            IF simThreshold <= 77
            THEN E2EOutcome(runs[k].clusters)
            ELSE /\ Len(runs[k].clusters) = 2
                 /\ \A c \in 1..2 : /\ runs[k].clusters[c].source_count = 1
                                    /\ Len(runs[k].clusters[c].links) = 1

\* the scenario was clustered with window 15 and threshold 0.77 into one
\* cluster of both records
C10_Witness ==
    /\ IsE2E /\ window = 15 /\ simThreshold = 77
    /\ Len(runs) >= 1
    /\ E2EOutcome(runs[1].clusters)
    /\ Len(runs[1].clusters[1].links) = 2

\* the sources of the members a cluster lists
SourcesOf(cluster) == {cluster.links[i].source : i \in 1..Len(cluster.links)}

\* the sum the claim describes, in halves: 1.0 for each listed standard source
\* present, 2.0 for the aggregator, 0.5 for every source the table does not list
ExpectedWeightHalves(sources) ==
    2 * Cardinality(sources \cap {"coindesk", "theblock", "blockworks", "messari"})
    + 4 * Cardinality(sources \cap {"cryptopanic"})
    + Cardinality(sources \ {"coindesk", "theblock", "blockworks", "messari",
                             "cryptopanic"})

\* C11: source diversity: in every cluster source_count is the number of
\* distinct sources among its members and the scorer's source_weight is the sum
\* of the weights of those distinct sources, each counted once, 0.5 for a
\* source absent from the table.
C11_SourceDiversity ==
    \A k \in 1..Len(runs) : \A c \in 1..Len(runs[k].clusters) :
        /\ runs[k].clusters[c].source_count = Cardinality(SourcesOf(runs[k].clusters[c]))
        /\ runs[k].locals[c].scorer.source_weight
               = ExpectedWeightHalves(SourcesOf(runs[k].clusters[c]))

\* a cluster of three members, two of them of the same unlisted source, the
\* third of a listed one: two sources, weight 1.0 + 0.5
C11_Witness ==
    /\ Len(runs) >= 1
    /\ Len(runs[1].clusters) = 1
    /\ Len(runs[1].clusters[1].links) = 3
    /\ SourcesOf(runs[1].clusters[1]) = {"coindesk", "decrypt"}
    /\ runs[1].clusters[1].source_count = 2
    /\ runs[1].locals[1].scorer.source_weight = 3

(***************************************************************************)
(* Calls of score_cluster and of extract_entities on arguments of their    *)
(* own: the functions as confirm.py exports them.                          *)
(***************************************************************************)
\* items of a cluster to score: a listed and an unlisted source, two
\* publication times (seconds)
ScoreTimes == {0, 7200}
ScoreItemPool ==
    { [ id |-> 0, source |-> s, url |-> UrlOfSource(s), title |-> TitleAB,
        summary |-> None, published_at |-> [at |-> p, tz |-> "utc"] ] :
        s \in {"coindesk", "decrypt"}, p \in ScoreTimes }

\* the similarity argument
ScoreSimilarities == { [num |-> 0, den |-> 1], [num |-> 6, den |-> 7], [num |-> 1, den |-> 1] }

\* what datetime.now reads: 30 seconds, one hour, twelve hours, 24 hours and
\* more after the publication times
ScoreNows == {30, 3600, 3601, 7230, 43200, 86400, 86401, 93601}

\* titles to tag
TitleBitcoin == <<"B", "i", "t", "c", "o", "i", "n", " ", "h", "i", "t", "s", " ", "$", "5", "0", "k">>
TitleBtcEtf == <<"B", "T", "C", " ", "E", "T", "F", " ", "a", "p", "p", "r", "o", "v", "e", "d", " ", "b", "y", " ", "S", "E", "C">>
TitleBtcHacked == <<"b", "t", "c", " ", "h", "a", "c", "k", "e", "d">>
TitleHackListing == <<"H", "a", "c", "k", " ", "l", "i", "s", "t", "i", "n", "g">>
TitleFundingRate == <<"F", "u", "n", "d", "i", "n", "g", " ", "r", "a", "t", "e", " ", "u", "p">>
TitleFundingRates == <<"f", "u", "n", "d", "i", "n", "g", " ", " ", "r", "a", "t", "e", "_", "s">>
TitleSecSec == <<"S", "E", "C", " ", "s", "e", "c">>
EntityTitles ==
    { TitleBitcoin, TitleBtcEtf, TitleBtcHacked, TitleHackListing,
      TitleFundingRate, TitleFundingRates, TitleSecSec }

InitCalls ==
    /\ \/ /\ pc = "score"
          /\ \E rs \in BoundedSeqs(ScoreItemPool, 2), sim \in ScoreSimilarities :
                 args = [ items |-> [i \in 1..Len(rs) |-> [rs[i] EXCEPT !.id = i]],
                          similarity |-> sim ]
       \/ /\ pc = "entities"
          /\ \E ts \in BoundedSeqs(EntityTitles, 2) :
                 args = [ items |-> [i \in 1..Len(ts) |-> [title |-> ts[i]]] ]
    /\ ret = NoResult
    /\ heap = <<>>
    /\ frames = <<>>
    /\ items = <<>>
    /\ threshold = 0
    /\ deduped = NoResult
    /\ again = NoResult
    /\ entries = <<>>
    /\ hydrated = <<>>
    /\ batch = <<>>
    /\ window = 0
    /\ simThreshold = 0
    /\ runs = <<>>

\* score_cluster(args.items, args.similarity), the clock reading now
ScoreCall ==
    /\ pc = "score"
    /\ \E now \in ScoreNows :
          ret' = [ now    |-> now,
                   locals |-> score_clusterLocals(args.items, args.similarity,
                                                  [at |-> now, tz |-> "utc"]) ]
    /\ pc' = "scored"
    /\ UNCHANGED <<items, threshold, deduped, again, entries, hydrated, batch,
                   window, simThreshold, runs, args, heap, frames>>

\* extract_entities(" ".join(item.title for item in args.items))
EntitiesCall ==
    /\ pc = "entities"
    /\ LET text == JoinTitlesFrom(args.items, 1, <<>>)
       IN  ret' = [ text |-> text, entities |-> extract_entities(text) ]
    /\ pc' = "tagged"
    /\ UNCHANGED <<items, threshold, deduped, again, entries, hydrated, batch,
                   window, simThreshold, runs, args, heap, frames>>

NextCalls == ScoreCall \/ EntitiesCall

SpecCalls == InitCalls /\ [][NextCalls]_vars

\* the seconds between the clock reading of the call and the publication of
\* the latest of the items scored
AgeSeconds ==
    ret.now - (CHOOSE p \in {args.items[i].published_at.at : i \in 1..Len(args.items)} :
                  \A i \in 1..Len(args.items) : args.items[i].published_at.at <= p)

\* C12: freshness clamp: for a non-empty cluster delta_hours is the larger of
\* one hour and the age of the latest member, and freshness the larger of 0 and
\* 1 - delta_hours / 24 (here in seconds out of 86400); so an age of 30 seconds
\* gives one hour and 23/24, freshness is never 1.0, and it is 0 once the
\* latest member is older than 24 hours.
C12_FreshnessClamp ==
    (pc = "scored" /\ args.items # <<>>) =>
        /\ ret.locals.delta_hours >= 3600
        /\ ret.locals.delta_hours >= AgeSeconds
        /\ ret.locals.delta_hours \in {3600, AgeSeconds}
        /\ ret.locals.freshness >= 0
        /\ ret.locals.freshness >= 86400 - ret.locals.delta_hours
        /\ ret.locals.freshness \in {0, 86400 - ret.locals.delta_hours}
        /\ AgeSeconds = 30 => ( /\ ret.locals.delta_hours = 3600
                                /\ 24 * ret.locals.freshness = 23 * 86400 )
        /\ ret.locals.freshness # 86400
        /\ AgeSeconds > 86400 => ret.locals.freshness = 0

\* a cluster whose latest member was published 30 seconds before the call was
\* scored: one hour, 23/24
C12_Witness ==
    /\ pc = "scored"
    /\ Len(args.items) = 2
    /\ AgeSeconds = 30
    /\ ret.locals.delta_hours = 3600
    /\ ret.locals.freshness = 82800

\* the bare tokens of the fixed list, upper-cased
EntityTokens ==
    { <<"B", "T", "C">>,
      <<"E", "T", "H">>,
      <<"S", "O", "L">>,
      <<"X", "R", "P">>,
      <<"S", "E", "C">>,
      <<"E", "T", "F">>,
      <<"H", "A", "C", "K">>,
      <<"F", "U", "N", "D", "I", "N", "G", " ", "R", "A", "T", "E">>,
      <<"L", "I", "S", "T", "I", "N", "G">> }

\* token occurs in text as a whole word, letter case ignored: some stretch of
\* the text spells it and is not flanked by a letter, a digit or an underscore
OccursAsWord(token, text) ==
    \E i \in 1..Len(text) :
        /\ i + Len(token) - 1 <= Len(text)
        /\ Upper(SubSeq(text, i, i + Len(token) - 1)) = token
        /\ i > 1 => text[i - 1] \in {" ", "\t", "$", ":"}
        /\ i + Len(token) <= Len(text) => text[i + Len(token)] \in {" ", "\t", "$", ":"}

\* C13: extract_entities returns the alphabetically sorted, duplicate-free list
\* of the upper-cased tokens of exactly those patterns that occur in the
\* space-joined titles as whole words, letter case ignored (the empty list if
\* none does); the titles "Bitcoin hits $50k" and "BTC ETF approved by SEC"
\* give exactly <<"B", "T", "C">>, <<"E", "T", "F">>, <<"S", "E", "C">>.
C13_EntityExtraction ==
    pc = "tagged" =>
        /\ \A i, j \in 1..Len(ret.entities) : i < j => StrLess(ret.entities[i], ret.entities[j])
        /\ {ret.entities[i] : i \in 1..Len(ret.entities)}
               = {token \in EntityTokens : OccursAsWord(token, ret.text)}
        /\ (Len(args.items) = 2 /\ args.items[1].title = TitleBitcoin
                                /\ args.items[2].title = TitleBtcEtf)
               => ret.entities = << <<"B", "T", "C">>, <<"E", "T", "F">>, <<"S", "E", "C">> >>

\* the two titles of the example were tagged <<"B", "T", "C">>, <<"E", "T", "F">>, <<"S", "E", "C">>
C13_Witness ==
    /\ pc = "tagged"
    /\ Len(args.items) = 2
    /\ args.items[1].title = TitleBitcoin
    /\ args.items[2].title = TitleBtcEtf
    /\ ret.entities = << <<"B", "T", "C">>, <<"E", "T", "F">>, <<"S", "E", "C">> >>

\* 0.6 * similarity + 0.3 * source_weight + 0.1 * freshness of the locals l of
\* one cluster, in ten-thousandths, as the fraction num / den
WeightedSum(l) ==
    [ num |-> 6000 * 432 * l.similarity.num
              + 1500 * 432 * l.scorer.source_weight * l.similarity.den
              + 5 * l.scorer.freshness * l.similarity.den,
      den |-> 432 * l.similarity.den ]

\* C14: the score of every cluster is 0.6 * intraSimilarity + 0.3 *
\* sourceWeight + 0.1 * freshness rounded to 4 decimal places: a whole number
\* of ten-thousandths at most half a ten-thousandth away from the sum, with no
\* cap at 1.0.
C14_ScoreRounded ==
    \A k \in 1..Len(runs) : \A c \in 1..Len(runs[k].clusters) :
        LET x     == WeightedSum(runs[k].locals[c])
            score == runs[k].clusters[c].score
        IN  /\ score \in Nat
            /\ 2 * AbsDiff(score * x.den, x.num) <= x.den
            /\ score = runs[k].locals[c].scorer.score

\* a cluster of two sources whose sum is above 1.0 and is not a whole number
\* of ten-thousandths: the score is above 1.0 and was rounded
C14_Witness ==
    /\ Len(runs) >= 1
    /\ Len(runs[1].clusters) >= 1
    /\ runs[1].clusters[1].source_count = 2
    /\ runs[1].clusters[1].score > 10000
    /\ WeightedSum(runs[1].locals[1]).num % WeightedSum(runs[1].locals[1]).den # 0

(***************************************************************************)
(* The two engine operations side by side: a caller makes either a         *)
(* news_fetch run (dedupe_items) or an analyze_news run                    *)
(* (cluster_news_items).                                                   *)
(***************************************************************************)
InitEngine == InitDedupe \/ InitCluster

NextEngine == NextDedupe \/ NextCluster

SpecEngine == InitEngine /\ [][NextEngine]_vars

\* C15: degenerate inputs: dedupe_items([]) returns [], cluster_news_items([])
\* returns [] whatever the window and the threshold, and a batch of one record
\* yields exactly one cluster, holding that record, with intra-similarity 0.0;
\* none of them raises.
C15_DegenerateInputs ==
    /\ (pc \in {"deduped", "done"} /\ items = <<>>) => deduped = <<>>
    /\ pc = "cluster" =>
          \A k \in 1..Len(runs) :
              /\ batch = <<>> => (runs[k].raised = "no" /\ runs[k].clusters = <<>>)
              /\ Len(batch) = 1 =>
                    /\ runs[k].raised = "no"
                    /\ Len(runs[k].clusters) = 1
                    /\ runs[k].clusters[1].links = <<LinkOf(batch[1])>>
                    /\ runs[k].locals[1].similarity.num = 0

\* a batch of one record was clustered twice: one cluster of one member each
\* time, similarity 0.0
C15_Witness ==
    /\ pc = "cluster"
    /\ Len(batch) = 1
    /\ Len(runs) = 2
    /\ Len(runs[2].clusters) = 1
    /\ Len(runs[2].clusters[1].links) = 1
    /\ runs[2].locals[1].similarity.num = 0

\* the batch holds a record that violates the contract: an empty title, or a
\* published_at without timezone information
ViolatesContract ==
    \E i \in 1..Len(batch) :
        batch[i].title = <<>> \/ batch[i].published_at.tz = "naive"

\* C16: on a batch holding a contract-violating record (empty title, or
\* published_at without timezone information) cluster_news_items raises
\* instead of returning clusters.
C16_FailFast ==
    (pc = "cluster" /\ ViolatesContract) =>
        \A k \in 1..Len(runs) : runs[k].raised # "no"

\* C18: two invocations of cluster_news_items with identical arguments return
\* identical clusters, score and cluster_id included.
C18_InjectedClockAndIds ==
    (pc = "cluster" /\ Len(runs) = 2) => runs[1].clusters = runs[2].clusters

\* C19: for every cluster, canonical_title is the title of its first accepted
\* member, which no member precedes in time, and summary is that member's
\* summary, or its title when the summary is None or empty.
C19_CanonicalTitleAndSummary ==
    \A k \in 1..Len(runs) : \A c \in 1..Len(runs[k].clusters) :
        LET members == runs[k].locals[c].cluster_items
            first   == members[1]
        IN  /\ \A i \in 1..Len(members) :
                   first.published_at.at <= members[i].published_at.at
            /\ runs[k].clusters[c].canonical_title = first.title
            /\ runs[k].clusters[c].links[1].title = first.title
            /\ runs[k].clusters[c].summary
                   = IF first.summary = None \/ first.summary = <<>>
                     THEN first.title ELSE first.summary

\* a batch whose first record is not the earliest was clustered into one
\* cluster titled after the earliest record, whose summary is empty
C19_Witness ==
    /\ Len(runs) >= 1
    /\ Len(batch) = 2
    /\ batch[1].published_at.at > batch[2].published_at.at
    /\ batch[1].title # batch[2].title
    /\ batch[2].summary = <<>>
    /\ Len(runs[1].clusters) = 1
    /\ runs[1].clusters[1].canonical_title = batch[2].title
    /\ runs[1].clusters[1].summary = batch[2].title

\* C20: in every cluster the links list the members in the order they were
\* accepted, which is by published_at and, for equal times, by input position;
\* first_seen is the published_at of the first listed member and the minimum,
\* last_seen that of the last listed member and the maximum, so first_seen <=
\* last_seen.
C20_MembersInTimeOrder ==
    \A k \in 1..Len(runs) : \A c \in 1..Len(runs[k].clusters) :
        LET members == runs[k].locals[c].cluster_items
            cluster == runs[k].clusters[c]
        IN  /\ cluster.links = [i \in 1..Len(members) |-> LinkOf(members[i])]
            /\ \A i, j \in 1..Len(members) :
                   i < j => \/ members[i].published_at.at < members[j].published_at.at
                            \/ /\ members[i].published_at.at = members[j].published_at.at
                               /\ members[i].id < members[j].id
            /\ cluster.first_seen = members[1].published_at.at
            /\ cluster.last_seen = members[Len(members)].published_at.at
            /\ \A i \in 1..Len(members) :
                   /\ cluster.first_seen <= members[i].published_at.at
                   /\ members[i].published_at.at <= cluster.last_seen
            /\ cluster.first_seen <= cluster.last_seen

\* a batch given latest first was clustered into one cluster of three members,
\* two of them published at the same time, first_seen before last_seen
C20_Witness ==
    /\ Len(runs) >= 1
    /\ Len(batch) = 3
    /\ batch[1].published_at.at > batch[2].published_at.at
    /\ batch[2].published_at.at = batch[3].published_at.at
    /\ Len(runs[1].clusters) = 1
    /\ Len(runs[1].clusters[1].links) = 3
    /\ runs[1].clusters[1].first_seen < runs[1].clusters[1].last_seen
    /\ runs[1].clusters[1].links[3] = LinkOf(batch[1])

(***************************************************************************)
(* Concurrent invocations: two threads, each running dedupe_items or       *)
(* cluster_news_items on the same list object, one loop iteration at a     *)
(* time, in any interleaving.  heap holds what both threads can reach: the *)
(* caller's list and the module-level tables; frames holds each thread's   *)
(* local variables.                                                        *)
(***************************************************************************)
Threads == {1, 2}

\* what datetime.now reads while the threads run
ThreadNow == 3600

ThreadItemPool ==
    { [ id |-> 0, source |-> "coindesk", url |-> u, title |-> t, summary |-> None,
        content_text |-> ContentX, hash |-> compute_hash(t, ContentX),
        published_at |-> [at |-> p, tz |-> "utc"] ] :
        <<t, u>> \in {<<TitleAB, UrlHttp>>, <<TitleAC, UrlHttps>>}, p \in {0, 900} }

\* the local variables of a thread about to run op
NewFrame(op) ==
    [ op |-> op, pc |-> IF op = "dedupe" THEN "loop" ELSE "sort", i |-> 1,
      sorted_items |-> <<>>, acc |-> <<>>, out |-> NoResult ]

InitThreads ==
    /\ pc = "threads"
    /\ \E rs \in BoundedSeqs(ThreadItemPool, MaxItems) :
           items = [i \in 1..Len(rs) |-> [rs[i] EXCEPT !.id = i]]
    /\ heap = [ items |-> items,
                SOURCE_WEIGHTS |-> [s \in {"coindesk", "theblock", "blockworks",
                                           "cryptopanic", "messari"} |->
                                       SourceWeightHalves(s)],
                ENTITY_PATTERNS |-> ENTITY_PATTERNS ]
    /\ frames \in [Threads -> {NewFrame("dedupe"), NewFrame("cluster")}]
    /\ threshold = 90
    /\ window = 15
    /\ simThreshold = 80
    /\ deduped = NoResult
    /\ again = NoResult
    /\ entries = <<>>
    /\ hydrated = <<>>
    /\ batch = <<>>
    /\ runs = <<>>
    /\ args = <<>>
    /\ ret = NoResult

\* what the thread's frame becomes; nothing else changes
Step(t, frame) ==
    /\ frames' = [frames EXCEPT ![t] = frame]
    /\ UNCHANGED <<pc, items, threshold, deduped, again, entries, hydrated, batch,
                   window, simThreshold, runs, args, ret>>

\* dedupe_items: one turn of `for item in items`, or the return after the last
DedupeIterate(t) ==
    LET f == frames[t]
    IN  /\ f.op = "dedupe" /\ f.pc = "loop"
        /\ IF f.i <= Len(heap.items)
           THEN LET item      == heap.items[f.i]
                    duplicate == \E k \in 1..Len(f.acc) :
                                    IsDuplicateOf(f.acc[k], item, threshold)
                IN  Step(t, [f EXCEPT !.i = f.i + 1,
                                      !.acc = IF duplicate THEN f.acc
                                              ELSE Append(f.acc, item)])
           ELSE Step(t, [f EXCEPT !.pc = "returned", !.out = f.acc])
        /\ heap' = heap

\* items.sort(key=...) in its place: the caller's list is reordered
HeapAfterSortInPlace(h) == [h EXCEPT !.items = sorted_items(h.items)]

\* sorted(items, key=...) builds a new list: the heap after it
HeapAfterSorted(h) == h

\* cluster_news_items: sorted_items = sorted(items, key=lambda i: i.published_at)
ClusterSort(t) ==
    LET f == frames[t]
    IN  /\ f.op = "cluster" /\ f.pc = "sort"
        /\ Step(t, [f EXCEPT !.pc = "group", !.sorted_items = sorted_items(heap.items)])
        /\ heap' = HeapAfterSorted(heap)

\* one turn of the first loop: item joins the first cluster that takes it, or
\* opens a new one
GroupItem(clusters, item, window_minutes, t) ==
    LET hits == {c \in 1..Len(clusters) :
                    JoinsCluster(clusters[c][Len(clusters[c])], item, window_minutes, t)}
    IN  IF hits = {} THEN Append(clusters, <<item>>)
        ELSE [clusters EXCEPT ![MinOf(hits)] = Append(clusters[MinOf(hits)], item)]

\* cluster_news_items: one turn of `for item in sorted_items`, or the passage
\* to the second loop
ClusterGroup(t) ==
    LET f == frames[t]
    IN  /\ f.op = "cluster" /\ f.pc = "group"
        /\ IF f.i <= Len(f.sorted_items)
           THEN Step(t, [f EXCEPT !.i = f.i + 1,
                                  !.acc = GroupItem(f.acc, f.sorted_items[f.i],
                                                    window, simThreshold)])
           ELSE Step(t, [f EXCEPT !.pc = "build", !.i = 1, !.out = <<>>])
        /\ heap' = heap

\* cluster_news_items: one turn of `for cluster in clusters`, or the return
ClusterBuild(t) ==
    LET f == frames[t]
    IN  /\ f.op = "cluster" /\ f.pc = "build"
        /\ IF f.i <= Len(f.acc)
           THEN Step(t, [f EXCEPT !.i = f.i + 1,
                                  !.out = Append(f.out,
                                              NewsCluster(f.acc[f.i], <<t, f.i>>,
                                                  [at |-> ThreadNow, tz |-> "utc"]))])
           ELSE Step(t, [f EXCEPT !.pc = "returned"])
        /\ heap' = heap

NextThreads ==
    \E t \in Threads :
        DedupeIterate(t) \/ ClusterSort(t) \/ ClusterGroup(t) \/ ClusterBuild(t)

SpecThreads == InitThreads /\ [][NextThreads]_vars

\* what the invocation of thread t returns when it runs alone on the list the
\* caller passed
AloneResult(t) ==
    IF frames[t].op = "dedupe" THEN dedupe_items(items, threshold)
    ELSE cluster_news_items(items, window, simThreshold,
                            [c \in 1..Len(items) |-> <<t, c>>],
                            [at |-> ThreadNow, tz |-> "utc"])

\* C17: concurrent invocations of dedupe_items and cluster_news_items do not
\* interfere: no step of any thread changes what the other threads can reach
\* (the caller's list, its records, the tables SOURCE_WEIGHTS and
\* ENTITY_PATTERNS), and under every interleaving a thread that has returned
\* has returned what its invocation returns when run alone.
C17_NoInterference ==
    [][ /\ heap' = heap
        /\ \A t \in Threads :
               frames'[t].pc = "returned" => frames'[t].out = AloneResult(t) ]_vars

\* a dedupe_items invocation has returned two of the three records of the
\* list while a cluster_news_items invocation on the same list is in its first
\* loop
C17_Witness ==
    /\ pc = "threads"
    /\ Len(items) = 3
    /\ frames[1].op = "dedupe" /\ frames[1].pc = "returned"
    /\ Len(frames[1].out) = 2
    /\ frames[1].out = dedupe_items(items, threshold)
    /\ frames[2].op = "cluster" /\ frames[2].pc = "group" /\ frames[2].i = 2
    /\ heap.items = items

(***************************************************************************)
(* Claims on the loops of dedupe_items and cluster_news_items               *)
(***************************************************************************)
\* x and y match at threshold t: equal fingerprints, equal canonical URLs, or
\* title similarity of at least t percent
RecordsMatch(x, y, t) ==
    \/ x.hash = y.hash
    \/ canonicalize_url(x.url) = canonicalize_url(y.url)
    \/ 100 * TitleRatio(x, y).num >= t * TitleRatio(x, y).den

\* C22: after dedupe_items(X, t) no two output records match each other: for
\* all output positions i < j the fingerprints differ, the canonical URLs
\* differ and the similarity of the normalized titles is below t; and an input
\* record is in the output exactly when no accepted record before it matches
\* it (dropped records are never compared with).
C22_OutputPairwiseUnmatched ==
    pc # "start" =>
        /\ \A i \in 1..Len(deduped), j \in 1..Len(deduped) :
              i < j =>
                 /\ deduped[i].hash # deduped[j].hash
                 /\ canonicalize_url(deduped[i].url) # canonicalize_url(deduped[j].url)
                 /\ 100 * TitleRatio(deduped[i], deduped[j]).num
                        < threshold * TitleRatio(deduped[i], deduped[j]).den
        /\ \A i \in 1..Len(items) :
              IsKept(deduped, i) <=>
                 ~ \E j \in 1..(i - 1) :
                      IsKept(deduped, j) /\ RecordsMatch(items[j], items[i], threshold)

\* at threshold 0.9 the second record is dropped, the third matches the dropped
\* second but is kept, its title being 6/7 similar to the first record's
C22_Witness ==
    /\ pc = "deduped"
    /\ threshold = 90
    /\ Len(items) = 3
    /\ KeptIds(deduped) = <<1, 3>>
    /\ RecordsMatch(items[2], items[3], threshold)
    /\ TitleRatio(items[1], items[3]).num * 7 = TitleRatio(items[1], items[3]).den * 6

\* y is processed before x: earlier published_at, or the same and earlier in
\* the input
Precedes(y, x) ==
    \/ y.published_at.at < x.published_at.at
    \/ (y.published_at.at = x.published_at.at /\ y.id < x.id)

\* x can join a cluster whose most recently appended member is y: at most
\* window minutes apart and title similarity of at least simThreshold percent
Qualifies(y, x) ==
    /\ AbsDiff(y.published_at.at, x.published_at.at) <= window * 60
    /\ 100 * TitleRatio(y, x).num >= simThreshold * TitleRatio(y, x).den

\* the cluster of these members was open when x was processed
WasOpenFor(members, x) == \E k \in 1..Len(members) : Precedes(members[k], x)

\* its most recently appended member at that moment
AnchorFor(members, x) ==
    members[MaxOf({k \in 1..Len(members) : Precedes(members[k], x)})]

\* the member lists of the clusters of run r, in creation order
MembersOf(r) == [c \in 1..Len(runs[r].locals) |-> runs[r].locals[c].cluster_items]

\* C23: clustering is first-match-wins: every record is a member of the
\* earliest created cluster that was open and qualified when the record was
\* processed (anchor within the window, similarity >= threshold), whatever the
\* similarity a later created cluster offered; a record opens a cluster only
\* when no open cluster qualified.
C23_FirstMatchWins ==
    \A r \in 1..Len(runs) :
       runs[r].raised = "no" =>
          LET M == MembersOf(r)
          IN  \A k \in 1..Len(M) : \A p \in 1..Len(M[k]) :
                 LET x == M[k][p]
                 IN  /\ \A c \in 1..(k - 1) :
                           WasOpenFor(M[c], x) => ~ Qualifies(AnchorFor(M[c], x), x)
                     /\ p > 1 => Qualifies(M[k][p - 1], x)
                     /\ p = 1 => \A c \in 1..Len(M) :
                                    (c # k /\ WasOpenFor(M[c], x))
                                        => ~ Qualifies(AnchorFor(M[c], x), x)

\* "a b" opens the first cluster, "a bcd" (75% similar) the second; "bc a" then
\* joins the first cluster at 6/7 although the second, open and within the
\* window, offers 8/9
C23_Witness ==
    /\ Len(runs) >= 1
    /\ runs[1].raised = "no"
    /\ simThreshold = 80
    /\ Len(MembersOf(1)) = 2
    /\ Len(MembersOf(1)[1]) = 2
    /\ LET first  == MembersOf(1)[1][1]
           x      == MembersOf(1)[1][2]
           second == MembersOf(1)[2][1]
       IN  /\ Precedes(second, x)
           /\ Qualifies(second, x)
           /\ TitleRatio(first, x) = [num |-> 6, den |-> 7]
           /\ TitleRatio(second, x) = [num |-> 8, den |-> 9]

\* the time between two records, in seconds
GapSeconds(y, x) == AbsDiff(y.published_at.at, x.published_at.at)

\* C24: a record is appended to a cluster only if it is at most windowMinutes
\* from the cluster's most recently appended member and at least threshold
\* similar to it, so consecutive members of a cluster are at most windowMinutes
\* apart and at least threshold similar; a gap of exactly windowMinutes does not
\* skip the cluster: a record that far from the anchor of an open cluster stays
\* out of it only for lack of similarity or because an earlier cluster took it.
C24_WindowInclusive ==
    \A r \in 1..Len(runs) :
       runs[r].raised = "no" =>
          LET M == MembersOf(r)
          IN  \A k \in 1..Len(M) :
                 /\ \A p \in 2..Len(M[k]) :
                       /\ GapSeconds(M[k][p - 1], M[k][p]) <= window * 60
                       /\ 100 * TitleRatio(M[k][p - 1], M[k][p]).num
                              >= simThreshold * TitleRatio(M[k][p - 1], M[k][p]).den
                 /\ \A c \in 1..(k - 1) :
                       LET x == M[k][1]
                       IN  ( /\ WasOpenFor(M[c], x)
                             /\ GapSeconds(AnchorFor(M[c], x), x) = window * 60 )
                           => 100 * TitleRatio(AnchorFor(M[c], x), x).num
                                  < simThreshold * TitleRatio(AnchorFor(M[c], x), x).den

\* two records exactly windowMinutes apart are consecutive members of one
\* cluster, and a third record, as far from the second, opened another for
\* lack of similarity
C24_Witness ==
    /\ Len(runs) >= 1
    /\ runs[1].raised = "no"
    /\ Len(MembersOf(1)) = 2
    /\ Len(MembersOf(1)[1]) = 2
    /\ GapSeconds(MembersOf(1)[1][1], MembersOf(1)[1][2]) = window * 60
    /\ GapSeconds(MembersOf(1)[1][2], MembersOf(1)[2][1]) = window * 60
    /\ Precedes(MembersOf(1)[1][2], MembersOf(1)[2][1])

\* C25: records are processed in ascending published_at order, records of
\* equal published_at in input order: of two records the one published
\* earlier, or at the same time and earlier in the input, comes first in a
\* cluster they share and, when both open a cluster, opens the earlier one.
C25_StableProcessingOrder ==
    \A r \in 1..Len(runs) :
       runs[r].raised = "no" =>
          LET M == MembersOf(r)
          IN  \A c \in 1..Len(M), d \in 1..Len(M) :
                 \A p \in 1..Len(M[c]) : \A q \in 1..Len(M[d]) :
                    Precedes(M[c][p], M[d][q]) =>
                       /\ c = d => p < q
                       /\ (p = 1 /\ q = 1) => c < d

\* the second and third input records carry the same published_at, the first a
\* later one: the second opens the cluster, the third follows it, the first
\* comes last
C25_Witness ==
    /\ Len(runs) = 2
    /\ runs[1].raised = "no"
    /\ Len(batch) = 3
    /\ batch[2].published_at = batch[3].published_at
    /\ batch[2].title # batch[3].title
    /\ batch[1].published_at.at > batch[2].published_at.at
    /\ Len(MembersOf(1)) = 1
    /\ [p \in 1..3 |-> MembersOf(1)[1][p].id] = <<2, 3, 1>>

\* fractions compared by cross-multiplication
FracEq(r1, r2)  == r1.num * r2.den = r2.num * r1.den
FracLeq(r1, r2) == r1.num * r2.den <= r2.num * r1.den

\* C26: the similarity handed to score_cluster is 0.0 for a cluster of one
\* member and otherwise the maximum, over the members m other than the first,
\* of the similarity of the first member's normalized title with m's: no
\* member's value exceeds it and some member's value equals it.
C26_IntraSimilarityIsMaxWithFirst ==
    \A r \in 1..Len(runs) :
       runs[r].raised = "no" =>
          \A c \in 1..Len(runs[r].locals) :
             LET members == runs[r].locals[c].cluster_items
                 s       == runs[r].locals[c].similarity
             IN  IF Len(members) = 1 THEN s.num = 0
                 ELSE /\ \A m \in 2..Len(members) :
                            FracLeq(TitleRatio(members[1], members[m]), s)
                      /\ \E m \in 2..Len(members) :
                            FracEq(TitleRatio(members[1], members[m]), s)

\* a cluster of three members: the second is 6/7 similar to the first, the
\* third 2/3 similar to the first and 6/7 to the second; the similarity is 6/7,
\* neither the average nor the value of the last member
C26_Witness ==
    /\ Len(runs) >= 1
    /\ runs[1].raised = "no"
    /\ Len(runs[1].locals) = 1
    /\ LET members == runs[1].locals[1].cluster_items
       IN  /\ Len(members) = 3
           /\ FracEq(TitleRatio(members[1], members[2]), [num |-> 6, den |-> 7])
           /\ FracEq(TitleRatio(members[1], members[3]), [num |-> 2, den |-> 3])
           /\ FracEq(TitleRatio(members[2], members[3]), [num |-> 6, den |-> 7])
    /\ FracEq(runs[1].locals[1].similarity, [num |-> 6, den |-> 7])

\* the places (cluster, position) of the links of run r
LinkPlaces(r) ==
    UNION { {<<c, p>> : p \in 1..Len(runs[r].clusters[c].links)} :
            c \in 1..Len(runs[r].clusters) }

\* C27: the returned clusters partition the input: no cluster is without
\* links, the links of all clusters number as many as the input records, and
\* every input record is the member behind exactly one link, for every window
\* and threshold.
C27_ClustersPartitionInput ==
    \A r \in 1..Len(runs) :
       runs[r].raised = "no" =>
          /\ \A c \in 1..Len(runs[r].clusters) : Len(runs[r].clusters[c].links) >= 1
          /\ Cardinality(LinkPlaces(r)) = Len(batch)
          /\ \A i \in 1..Len(batch) :
                Cardinality({pl \in LinkPlaces(r) :
                                /\ MembersOf(r)[pl[1]][pl[2]] = batch[i]
                                /\ runs[r].clusters[pl[1]].links[pl[2]]
                                       = LinkOf(batch[i])}) = 1

\* three records given out of time order end in two clusters, one of two
\* links and one of one, the second member of the first qualifying for the
\* second cluster as well
C27_Witness ==
    /\ Len(runs) >= 1
    /\ runs[1].raised = "no"
    /\ Len(batch) = 3
    /\ batch[1].published_at.at > batch[2].published_at.at
    /\ Len(runs[1].clusters) = 2
    /\ Len(runs[1].clusters[1].links) = 2
    /\ Len(runs[1].clusters[2].links) = 1
    /\ Qualifies(MembersOf(1)[2][1], MembersOf(1)[1][2])
    /\ Precedes(MembersOf(1)[2][1], MembersOf(1)[1][2])

\* C28: the similarity computed for a cluster of two or more members is at
\* least the similarity threshold, also when a later member, taken in through
\* the chain, is less than threshold similar to the first member.
C28_IntraSimilarityAtLeastThreshold ==
    \A r \in 1..Len(runs) :
       runs[r].raised = "no" =>
          \A c \in 1..Len(runs[r].locals) :
             Len(runs[r].locals[c].cluster_items) >= 2 =>
                100 * runs[r].locals[c].similarity.num
                    >= simThreshold * runs[r].locals[c].similarity.den

\* at threshold 0.8 the third member of a cluster is 2/3 similar to the first,
\* and the cluster's similarity is the 6/7 of the second
C28_Witness ==
    /\ Len(runs) >= 1
    /\ runs[1].raised = "no"
    /\ simThreshold = 80
    /\ Len(runs[1].locals) >= 1
    /\ Len(runs[1].locals[1].cluster_items) = 3
    /\ 100 * TitleRatio(runs[1].locals[1].cluster_items[1],
                        runs[1].locals[1].cluster_items[3]).num
           < simThreshold * TitleRatio(runs[1].locals[1].cluster_items[1],
                                       runs[1].locals[1].cluster_items[3]).den
    /\ runs[1].locals[1].similarity = [num |-> 6, den |-> 7]

\* C29: clusters never reopen: once a record, in processing order, is more
\* than windowMinutes later than the most recently appended member of a
\* cluster, that member stays the cluster's last: no record processed later
\* is appended to it; and the clusters are returned in creation order, their
\* first_seen never decreasing.
C29_ClustersNeverReopen ==
    \A r \in 1..Len(runs) :
       runs[r].raised = "no" =>
          LET M == MembersOf(r)
          IN  /\ \A c \in 1..Len(M) : \A i \in 1..Len(batch) :
                    ( /\ WasOpenFor(M[c], batch[i])
                      /\ batch[i].published_at.at
                             - AnchorFor(M[c], batch[i]).published_at.at > window * 60 )
                    => \A p \in 1..Len(M[c]) : ~ Precedes(batch[i], M[c][p])
              /\ \A c \in 1..(Len(M) - 1) :
                    /\ runs[r].clusters[c].first_seen
                           <= runs[r].clusters[c + 1].first_seen
                    /\ Precedes(M[c][1], M[c + 1][1])

\* the first cluster is out of the window for the second record; the third
\* record, published with the second and carrying the first record's title,
\* opens a third cluster instead of joining the first
C29_Witness ==
    /\ Len(runs) >= 1
    /\ runs[1].raised = "no"
    /\ Len(MembersOf(1)) = 3
    /\ LET a == MembersOf(1)[1][1]
           x == MembersOf(1)[2][1]
           y == MembersOf(1)[3][1]
       IN  /\ x.published_at.at - a.published_at.at > window * 60
           /\ y.published_at.at = x.published_at.at
           /\ y.title = a.title

(***************************************************************************)
(* rate_limit.py: enforce_rate_limit called from several threads.  heap     *)
(* holds the module's _last_call dictionary (a function on the keys it      *)
(* contains), its _lock (the thread holding it, 0 when free) and what       *)
(* time.monotonic reads; frames holds, for each thread, the arguments and   *)
(* the local variables of its call.  An Optional local is <<>> for None     *)
(* and <<v>> for the value v.                                               *)
(***************************************************************************)
RateThreads == {1, 2, 3}

\* hosts of the requested URLs
RateKeys == {"api.a", "api.b"}

\* min_interval of the callers, in clock units
RateIntervals == {0, 2, 3}

\* the last reading of time.monotonic the runs go to
MaxClock == 4

\* the local variables of a thread entering enforce_rate_limit(key, min_interval)
RateFrame(key, min_interval) ==
    [ key |-> key, min_interval |-> min_interval, pc |-> "call",
      now |-> <<>>, last |-> <<>> ]

InitRateLimit ==
    /\ pc = "ratelimit"
    /\ heap = [ _last_call |-> << >>, _lock |-> 0, monotonic |-> 0 ]
    /\ frames \in [RateThreads ->
                     {RateFrame(k, m) : k \in RateKeys, m \in RateIntervals}]
    /\ items = <<>>
    /\ threshold = 0
    /\ deduped = NoResult
    /\ again = NoResult
    /\ entries = <<>>
    /\ hydrated = <<>>
    /\ batch = <<>>
    /\ window = 0
    /\ simThreshold = 0
    /\ runs = <<>>
    /\ args = <<>>
    /\ ret = NoResult

\* the monotonic clock advances
ClockTick ==
    /\ pc = "ratelimit"
    /\ heap.monotonic < MaxClock
    /\ heap' = [heap EXCEPT !.monotonic = heap.monotonic + 1]
    /\ UNCHANGED <<pc, items, threshold, deduped, again, entries, hydrated, batch,
                   window, simThreshold, runs, args, ret, frames>>

\* if min_interval <= 0: return
RateEnter(t) ==
    LET f == frames[t]
    IN  /\ pc = "ratelimit" /\ f.pc = "call"
        /\ Step(t, [f EXCEPT !.pc = IF f.min_interval <= 0 THEN "returned"
                                    ELSE "sample"])
        /\ heap' = heap

\* now = time.monotonic()
RateSample(t) ==
    LET f == frames[t]
    IN  /\ pc = "ratelimit" /\ f.pc = "sample"
        /\ Step(t, [f EXCEPT !.pc = "acquire", !.now = <<heap.monotonic>>])
        /\ heap' = heap

\* the lock can be taken
LockFreeAlways(h) == TRUE

LockFree(h) == h._lock = 0

\* with _lock: the thread waits until the lock is free and takes it
RateAcquire(t) ==
    LET f == frames[t]
    IN  /\ pc = "ratelimit" /\ f.pc = "acquire"
        /\ LockFree(heap)
        /\ Step(t, [f EXCEPT !.pc = "get"])
        /\ heap' = [heap EXCEPT !._lock = t]

\* last = _last_call.get(key)
RateGet(t) ==
    LET f == frames[t]
    IN  /\ pc = "ratelimit" /\ f.pc = "get"
        /\ Step(t, [f EXCEPT !.pc = "decide",
                             !.last = IF f.key \in DOMAIN heap._last_call
                                      THEN <<heap._last_call[f.key]>> ELSE <<>>])
        /\ heap' = heap

\* last is None or now - last >= min_interval
BudgetFree(f) == f.last = <<>> \/ f.now[1] - f.last[1] >= f.min_interval

\* _last_call[key] = now
StoreLastCall(last_call, key, now) ==
    [k \in DOMAIN last_call \cup {key} |-> IF k = key THEN now ELSE last_call[k]]

\* the rest of the with block and what follows it: the key's time is stored
\* and the call returns, or the block is left and RateLimitError raised; the
\* lock is released either way
RateDecide(t) ==
    LET f == frames[t]
    IN  /\ pc = "ratelimit" /\ f.pc = "decide"
        /\ IF BudgetFree(f)
           THEN /\ Step(t, [f EXCEPT !.pc = "returned"])
                /\ heap' = [heap EXCEPT
                               !._last_call = StoreLastCall(heap._last_call, f.key,
                                                            f.now[1]),
                               !._lock = 0]
           ELSE /\ Step(t, [f EXCEPT !.pc = "raised"])
                /\ heap' = [heap EXCEPT !._lock = 0]

NextRateLimit ==
    \/ ClockTick
    \/ \E t \in RateThreads :
          RateEnter(t) \/ RateSample(t) \/ RateAcquire(t) \/ RateGet(t) \/ RateDecide(t)

SpecRateLimit == InitRateLimit /\ [][NextRateLimit]_vars

\* the key's entry of _last_call differs between the two states of a step
LastCallChanged(k) ==
    \/ (k \in DOMAIN heap._last_call) # (k \in DOMAIN heap'._last_call)
    \/ (k \in DOMAIN heap._last_call /\ heap'._last_call[k] # heap._last_call[k])

\* C30: under every interleaving of threads calling enforce_rate_limit(key, m)
\* with m > 0, two calls on the same key that returned without raising sampled
\* clock values at least m apart; the stored time of a key is never removed
\* and never decreases; it changes only in the step by which a call with that
\* key returns, so a call that raises RateLimitError and calls on other keys
\* leave it unchanged.
C30_RateLimitUnderInterleaving ==
    /\ [] ( \A a \in RateThreads, b \in RateThreads :
               ( /\ a # b
                 /\ frames[a].pc = "returned" /\ frames[b].pc = "returned"
                 /\ frames[a].min_interval > 0 /\ frames[b].min_interval > 0
                 /\ frames[a].key = frames[b].key )
               => AbsDiff(frames[a].now[1], frames[b].now[1])
                      >= MinOf({frames[a].min_interval, frames[b].min_interval}) )
    /\ [][ \A k \in RateKeys :
              /\ k \in DOMAIN heap._last_call =>
                    /\ k \in DOMAIN heap'._last_call
                    /\ heap'._last_call[k] >= heap._last_call[k]
              /\ LastCallChanged(k) =>
                    \E t \in RateThreads :
                       /\ frames[t].key = k
                       /\ frames[t].pc # "returned" /\ frames'[t].pc = "returned"
                       /\ heap'._last_call[k] = frames[t].now[1]
                       /\ \A u \in RateThreads \ {t} : frames'[u] = frames[u] ]_vars

\* two threads have returned on the same key, their samples exactly one
\* min_interval apart, and the third, which sampled the clock before the
\* second stored its time, has raised on that key
C30_Witness ==
    /\ pc = "ratelimit"
    /\ frames[1].key = frames[2].key /\ frames[2].key = frames[3].key
    /\ frames[1].pc = "returned" /\ frames[2].pc = "returned"
    /\ frames[1].min_interval = 2 /\ frames[2].min_interval = 2
    /\ frames[2].now = <<frames[1].now[1] + 2>>
    /\ frames[3].pc = "raised"
    /\ frames[3].now[1] < frames[2].now[1]
    /\ heap._last_call[frames[1].key] = frames[2].now[1]

(***************************************************************************)
(* news_fetch.py: handler.  args is the request, heap what the handler      *)
(* finds around it (the settings, what the feeds serve, whether the         *)
(* storage accepts writes), ret the response or the exception that left     *)
(* the handler, runs the calls of collect_source_news it made, in order.    *)
(* The body is the JSON document it carries; HMAC-SHA256 is taken to be     *)
(* free of collisions: the digest is the pair of the key and the message.   *)
(***************************************************************************)
\* the keys of SOURCE_CATALOG and whether the source has an rss address
SOURCE_CATALOG ==
    [ s \in {"coindesk", "theblock", "blockworks", "cointelegraph", "defiant",
             "dlnews", "protos", "decrypt", "cryptopanic", "messari", "glassnode"} |->
        [rss |-> s \notin {"cryptopanic", "messari"}, site |-> TRUE] ]

\* the threshold handler passes to dedupe_items, in percent
NEWS_DEDUPE_THRESHOLD == 90

\* settings.max_items_per_source
MAX_ITEMS_PER_SOURCE == 100

\* the longest list of sources in a request
MaxSources == 3

\* the sources a request asks for
FetchSources == {"coindesk", "theblock", "cryptopanic", "nosuch"}

\* datetime.now during the request, and the twelve hours of default_window
FetchNow == 50000
DefaultWindowSeconds == 43200

SecretKey == "testsecret"
AllowedOrigin == "https://chat.openai.com"
OtherOrigin == "https://other.example"

\* hmac.new(secret, body, hashlib.sha256).hexdigest()
HmacSha256(secret, body) == <<"hmac-sha256", secret, body>>

\* verify_signature: the exception it raises, or "ok"
verify_signature(headers, body, settings) ==
    IF headers.signature = <<>> THEN "SignatureMissing"
    ELSE IF headers.signature # HmacSha256(settings.hmac_shared_secret, body)
         THEN "SignatureMismatch"
         ELSE "ok"

\* validate_origin: the origin it returns, or the exception it raises
validate_origin(headers, settings) ==
    IF settings.allowed_origins = <<>> THEN [raised |-> "no", origin |-> headers.origin]
    ELSE IF headers.origin = <<>>
              \/ \E k \in 1..Len(settings.allowed_origins) :
                    <<settings.allowed_origins[k]>> = headers.origin
         THEN [raised |-> "no", origin |-> headers.origin]
         ELSE [raised |-> "OriginNotAllowed", origin |-> <<>>]

\* build_cors_headers: the Access-Control-Allow-Origin header, if any
build_cors_headers(origin, settings) ==
    IF origin # <<>> THEN origin
    ELSE IF settings.allowed_origins # <<>> THEN <<settings.allowed_origins[1]>>
         ELSE <<>>

\* NewsFetchRequest.parse_raw: max_per_source must be in 1..200
ParsesAsNewsFetchRequest(body) == body.max_per_source >= 1 /\ body.max_per_source <= 200

\* hydrate_entry returns for this entry: the article could be fetched and the
\* item stored
Hydrates(entry, env) == entry.fetch = "ok" /\ env.storage = "up"

RECURSIVE CollectFrom(_, _, _, _, _, _, _)
\* the loop of collect_source_news over the entries, from entry i on: an entry
\* published before since, or one hydrate_entry raises for, is passed over
CollectFrom(source, feed_entries, i, collected, since, limit, env) ==
    IF i > Len(feed_entries) \/ Len(collected) >= limit THEN collected
    ELSE LET entry == feed_entries[i]
             stale == entry.published_at # <<>> /\ entry.published_at[1] < since
         IN  CollectFrom(source, feed_entries, i + 1,
                         IF stale \/ ~ Hydrates(entry, env) THEN collected
                         ELSE Append(collected, hydrate_entry(source, entry, entry.id)),
                         since, limit, env)

\* collect_source_news(source, req, since, log): what it returns, or that it
\* raised (fetching the feed failed)
collect_source_news(source, req, since, env) ==
    LET limit == MinOf({req.max_per_source, MAX_ITEMS_PER_SOURCE})
    IN  IF SOURCE_CATALOG[source].rss /\ env.feeds[source].raises
        THEN [source |-> source, raised |-> TRUE, collected |-> <<>>]
        ELSE [source    |-> source,
              raised    |-> FALSE,
              collected |-> IF SOURCE_CATALOG[source].rss
                            THEN CollectFrom(source, env.feeds[source].entries, 1, <<>>,
                                             since, limit, env)
                            ELSE <<>>]

\* the items of a call put in front of those gathered before
ExtendedInFront(acc, call) ==
    [ items |-> IF call.raised THEN acc.items ELSE call.collected \o acc.items,
      calls |-> Append(acc.calls, call) ]

\* items.extend(collect_source_news(...)) inside its try: what the loop over
\* the sources holds after this call, the items gathered and the calls made
Extended(acc, call) ==
    [ items |-> IF call.raised THEN acc.items ELSE acc.items \o call.collected,
      calls |-> Append(acc.calls, call) ]

\* one turn of the loop over the sources
AfterSource(source, req, acc, since, env) ==
    IF source \notin DOMAIN SOURCE_CATALOG THEN acc
    ELSE Extended(acc, collect_source_news(source, req, since, env))

RECURSIVE FetchFrom(_, _, _, _, _)
\* the loop of handler over req.sources, from source i on
FetchFrom(req, i, acc, since, env) ==
    IF i > Len(req.sources) THEN acc
    ELSE FetchFrom(req, i + 1, AfterSource(req.sources[i], req, acc, since, env),
                   since, env)

\* a response of handler
Response(status, allow_origin, content_type, body) ==
    [ raised |-> "no", statusCode |-> status,
      headers |-> [allow_origin |-> allow_origin, content_type |-> content_type],
      body |-> body ]

\* the last lines of handler: the items are deduplicated, the response is
\* stored and returned
Completed(fetched, cors, env) ==
    IF env.storage # "up"
    THEN [ret |-> [raised |-> "StorageError"], calls |-> fetched.calls]
    ELSE [ret |-> Response(200, cors, <<"application/json">>,
                           [items |-> dedupe_items(fetched.items,
                                                   NEWS_DEDUPE_THRESHOLD)]),
          calls |-> fetched.calls]

\* handler(request): the response, or the exception, and the calls made
handler(request, env) ==
    LET method   == IF request.method = <<>> THEN "POST" ELSE request.method[1]
        settings == env.settings
        checked  == validate_origin(request.headers, settings)
        cors     == build_cors_headers(checked.origin, settings)
        json     == <<"application/json">>
    IN  IF checked.raised # "no"
        THEN [ret |-> Response(403, build_cors_headers(<<>>, settings), <<>>,
                               [error |-> checked.raised]),
              calls |-> <<>>]
        ELSE IF method = "OPTIONS"
        THEN [ret |-> Response(204, cors, <<>>, <<>>), calls |-> <<>>]
        ELSE IF method # "POST"
        THEN [ret |-> Response(405, cors, json, [error |-> "method not allowed"]),
              calls |-> <<>>]
        ELSE IF verify_signature(request.headers, request.body, settings) # "ok"
        THEN [ret |-> Response(401, cors, json,
                         [error |-> verify_signature(request.headers, request.body,
                                                     settings)]),
              calls |-> <<>>]
        ELSE IF ~ ParsesAsNewsFetchRequest(request.body)
        THEN [ret |-> Response(422, cors, json, [error |-> "ValidationError"]),
              calls |-> <<>>]
        ELSE Completed(FetchFrom(request.body, 1,
                                 [items |-> <<>>, calls |-> <<>>],
                                 IF request.body.since # <<>> THEN request.body.since[1]
                                 ELSE FetchNow - DefaultWindowSeconds,
                                 env),
                       cors, env)

\* what the feeds serve: entries as rss.fetch_feed returns them, with the
\* text extract_article finds behind each, or a fetch that raises
UrlHttpB  == <<"http:", "//", "example.com", "/b">>
UrlHttpsB == <<"https:", "//", "example.com", "/b">>

FeedEntry(id, url, title, content, published_at, fetch) ==
    [ id |-> id, url |-> url, title |-> title, content |-> content,
      published_at |-> <<published_at>>, fetch |-> fetch ]

FeedDown == [raises |-> TRUE, entries |-> <<>>]

\* a recent entry, one older than the default window, and one whose article
\* is refused by the rate limiter
CoindeskFeed ==
    [ raises  |-> FALSE,
      entries |-> << FeedEntry(1, UrlHttp, TitleAB, ContentX, 40000, "ok"),
                     FeedEntry(2, UrlHttpB, TitleAC, ContentY, 0, "ok"),
                     FeedEntry(3, UrlHttpB, TitleAC, ContentX, 40000, "rate_limited") >> ]

\* the first entry repeats the first of coindesk under another URL and
\* spelling; the second is 6/7 similar to it
TheblockFeed ==
    [ raises  |-> FALSE,
      entries |-> << FeedEntry(4, UrlHttps, TitleAB2, ContentX, 40000, "ok"),
                     FeedEntry(5, UrlHttpsB, TitleBCA, ContentY, 40000, "ok") >> ]

FetchBodies ==
    { [sources |-> s, since |-> a, max_per_source |-> m] :
        s \in BoundedSeqs(FetchSources, MaxSources), a \in {<<>>, <<0>>}, m \in {0, 1, 2} }

\* the X-Signature header of a request with this body: none, the digest of
\* the body under the shared secret, a digest under another key, the digest
\* of another body
SignatureChoices == {"none", "valid", "other key", "other body"}

SignatureHeader(choice, body) ==
    IF choice = "none" THEN <<>>
    ELSE IF choice = "valid" THEN HmacSha256(SecretKey, body)
    ELSE IF choice = "other key" THEN HmacSha256("other", body)
    ELSE HmacSha256(SecretKey, [body EXCEPT !.max_per_source = 3])

InitFetch ==
    /\ pc = "request"
    /\ \E body \in FetchBodies,
          method \in {<<>>, <<"POST">>, <<"GET">>, <<"OPTIONS">>},
          origin \in {<<>>, <<AllowedOrigin>>, <<OtherOrigin>>},
          choice \in SignatureChoices :
          args = [ method  |-> method,
                   headers |-> [ origin    |-> origin,
                                 signature |-> SignatureHeader(choice, body) ],
                   body    |-> body ]
    /\ \E allowed \in {<<>>, <<AllowedOrigin>>},
          coindesk \in {FeedDown, CoindeskFeed},
          theblock \in {FeedDown, TheblockFeed},
          storage \in {"up", "down"} :
          heap = [ settings |-> [ hmac_shared_secret |-> SecretKey,
                                  allowed_origins    |-> allowed ],
                   feeds    |-> [ s \in {"coindesk", "theblock"} |->
                                     IF s = "coindesk" THEN coindesk ELSE theblock ],
                   storage  |-> storage ]
    /\ ret = NoResult
    /\ runs = <<>>
    /\ items = <<>>
    /\ threshold = 0
    /\ deduped = NoResult
    /\ again = NoResult
    /\ entries = <<>>
    /\ hydrated = <<>>
    /\ batch = <<>>
    /\ window = 0
    /\ simThreshold = 0
    /\ frames = <<>>

\* handler(request) runs from its first line to its return or to the
\* exception that leaves it
HandleRequest ==
    /\ pc = "request"
    /\ \E done \in {handler(args, heap)} :
          /\ ret' = done.ret
          /\ runs' = done.calls
    /\ pc' = "responded"
    /\ UNCHANGED <<items, threshold, deduped, again, entries, hydrated, batch,
                   window, simThreshold, args, heap, frames>>

NextFetch == HandleRequest

SpecFetch == InitFetch /\ [][NextFetch]_vars

\* the request is a POST (the method handler assumes when none is given)
IsPost == args.method = <<>> \/ args.method = <<"POST">>

\* its X-Signature is the HMAC-SHA256 of its body under the shared secret
IsSigned ==
    args.headers.signature = HmacSha256(heap.settings.hmac_shared_secret, args.body)

\* its Origin header is absent or allowed, or no origin is configured
OriginPasses ==
    \/ heap.settings.allowed_origins = <<>>
    \/ args.headers.origin = <<>>
    \/ \E k \in 1..Len(heap.settings.allowed_origins) :
          args.headers.origin = <<heap.settings.allowed_origins[k]>>

IsKnownSource(s) == s \in DOMAIN SOURCE_CATALOG

RECURSIVE GatheredFrom(_, _)
\* the records the calls from the k-th on returned, concatenated; a call that
\* raised gives none
GatheredFrom(calls, k) ==
    IF k > Len(calls) THEN <<>>
    ELSE (IF calls[k].raised THEN <<>> ELSE calls[k].collected)
             \o GatheredFrom(calls, k + 1)

RECURSIVE KeptAt(_, _, _)
\* the elements of seq at the positions in K, from position i on, in order
KeptAt(seq, K, i) ==
    IF i > Len(seq) THEN <<>>
    ELSE (IF i \in K THEN <<seq[i]>> ELSE <<>>) \o KeptAt(seq, K, i + 1)

\* out is the deduplication of input at threshold t: it keeps, in order, the
\* records no earlier kept record matches
IsDedupeOf(out, input, t) ==
    \E K \in SUBSET (1..Len(input)) :
       /\ out = KeptAt(input, K, 1)
       /\ \A i \in 1..Len(input) :
             i \in K <=> ~ \E j \in K : j < i /\ RecordsMatch(input[j], input[i], t)

\* the outcome the claim describes: status 200, one collect_source_news call
\* for each requested known source in request order, and as items the
\* deduplication at 0.9 of what the calls that did not raise returned
RespondsWithDedupedItems ==
    /\ ret.raised = "no"
    /\ ret.statusCode = 200
    /\ [k \in 1..Len(runs) |-> runs[k].source]
           = SelectSeq(args.body.sources, IsKnownSource)
    /\ IsDedupeOf(ret.body.items, GatheredFrom(runs, 1), 90)

====
